---------------------------- MODULE Spec2Model ----------------------------
(***************************************************************************)
(* Model of the smart-tent control-and-aggregation engine:                 *)
(*   - RuntimeTracker      (src/backend/runtime_stats.py)                  *)
(*   - TapoDevice ledger   (src/backend/devices/tapo_device.py,            *)
(*                          src/fetch_history.py)                          *)
(*   - the scheduler worker and its control loops (src/backend/app.py)     *)
(*                                                                         *)
(* Encoding conventions                                                    *)
(*   - A Python dict is a TLA+ record; a key that is missing, or whose     *)
(*     value is None, is a field that is absent from the record.           *)
(*     d.get(k) is Get(d, k): the set {} for None, {v} for the value v.    *)
(*   - Clock readings are whole seconds; temperatures are tenths of a      *)
(*     degree; energy is whole Wh (the unit of the meter), so that a kWh   *)
(*     value with 3 decimals is an integer number of Wh; costs are whole   *)
(*     cents.                                                              *)
(***************************************************************************)
EXTENDS Integers, Sequences, FiniteSets, TLC

VARIABLES
    \* ---- RuntimeTracker (runtime_stats.py) ----
    history,        \* deque of <<timestamp, is_on>>
    all_time,       \* [total_seconds, on_seconds, start_time]
    runtime_file,   \* runtime_history.json: [state, history, all_time]
    rt_removed,     \* observation: samples dropped by the last save/prune call
    \* ---- TapoDevice energy ledger (tapo_device.py) ----
    all_history,    \* date -> [kwh, cost]
    cached_history, \* list of [date, kwh, cost]
    energy_file,    \* energy_history.json: [state, all_history]
    tapo_call,      \* observation: the last get_status call [conn, today, today_wh]
    \* ---- the scheduler worker (app.py) ----
    pc,             \* "tick": about to run an iteration; "wait": in stop_event.wait
    clock,          \* time.time()
    config,         \* the settings files and the environment
    status,         \* the status of the last iteration, as emitted
    humidity_override_active,
    last_heater_check_time,
    last_wiz_state,
    last_power_above_threshold,
    last_water_notification_time,
    last_humidity_low_notification_time,
    last_save_time,
    cmds,           \* observation: the device commands of the last iteration
    notes,          \* observation: the notification tags of the last iteration
    observed_power, \* observation: current_power_w of every available meter snapshot
    power_alerts,   \* observation: number of power-alert notifications so far
    ticks,          \* observation: iterations so far
    scenario,       \* which inputs the environment produces
    \* ---- the worker step by step, the main thread and a status request ----
    stop_event,     \* threading.Event
    main,           \* main thread: "serving", "joining", "exited"
    failed,         \* observation: devices whose fetch raised in this iteration
    send_raised,    \* observation: a notification send raised in this iteration
    step_log,       \* observation: the steps of this iteration, in order
    emits,          \* observation: status_update emits of the worker in this iteration
    published,      \* observation: the object of the worker's last emit
    final_saves,    \* observation: saves made after the loop
    inputs_log,     \* observation: [status, clock] of every iteration that fetched
    outputs_log,    \* observation: [cmds, notes] of those iterations
    rpc,            \* status request: "idle", "metrics", "done"
    view            \* observation: what the status request read of the tracker

trackerVars == <<history, all_time, runtime_file, rt_removed>>

ledgerVars == <<all_history, cached_history, energy_file, tapo_call>>

loopVars == <<humidity_override_active, last_heater_check_time, last_wiz_state,
              last_power_above_threshold, last_water_notification_time,
              last_humidity_low_notification_time, last_save_time>>

workerVarsButPc == <<clock, config, status, loopVars, cmds, notes,
                     observed_power, power_alerts, ticks, scenario>>

workerVars == <<pc, workerVarsButPc>>

schedVars == <<stop_event, main, failed, send_raised, step_log, emits, published,
               final_saves, inputs_log, outputs_log, rpc, view>>

vars == <<trackerVars, ledgerVars, workerVars, schedVars>>

-----------------------------------------------------------------------------
(* Python helpers *)

None == {}

Some(v) == {v}

\* d.get(k): None when the key is missing
Get(d, k) == IF k \in DOMAIN d THEN {d[k]} ELSE {}

\* d.get(k, default)
GetOr(d, k, default) == IF k \in DOMAIN d THEN d[k] ELSE default

\* truth value of an optional boolean: None and False are falsy
Truthy(o) == o = {TRUE}

-----------------------------------------------------------------------------
(* RuntimeTracker *)

MAX_HISTORY_SECONDS == 604800

GAP_SECONDS == 300

\* bounds of the tracker's state space
MaxSamples == 2

MaxTotalSeconds == 1

\* RuntimeTracker.prune: pop from the left while the oldest sample is older
\* than the cutoff
RECURSIVE PopLeftWhileOld(_, _)
PopLeftWhileOld(h, cutoff) ==
    IF Len(h) > 0 /\ h[1][1] < cutoff
    THEN PopLeftWhileOld(Tail(h), cutoff)
    ELSE h

\* mutant: the sample exactly at the cutoff is dropped as well
prune_AtCutoff(h, now) == PopLeftWhileOld(h, now - MAX_HISTORY_SECONDS + 1)

prune(h, now) == PopLeftWhileOld(h, now - MAX_HISTORY_SECONDS)

\* mutant: the gap cap is applied to total_seconds only
Accumulate_OnUncapped(at, h, now) ==
    LET delta0 == IF Len(h) > 1 THEN now - h[Len(h) - 1][1] ELSE 0
        delta  == IF delta0 > GAP_SECONDS THEN 0 ELSE delta0
    IN  [at EXCEPT
            !.total_seconds = IF delta > 0 THEN @ + delta ELSE @,
            !.on_seconds = IF delta0 > 0 /\ h[Len(h) - 1][2] THEN @ + delta0 ELSE @]

\* mutant: an interval of exactly 300 s is treated as a gap
Accumulate_GapInclusive(at, h, now) ==
    LET delta0 == IF Len(h) > 1 THEN now - h[Len(h) - 1][1] ELSE 0
        delta  == IF delta0 >= GAP_SECONDS THEN 0 ELSE delta0
    IN  IF delta > 0
        THEN [at EXCEPT
                !.total_seconds = @ + delta,
                !.on_seconds = IF h[Len(h) - 1][2] THEN @ + delta ELSE @]
        ELSE at

\* mutant: any non-zero interval is counted, also a negative one
Accumulate_SignedDelta(at, h, now) ==
    LET delta0 == IF Len(h) > 1 THEN now - h[Len(h) - 1][1] ELSE 0
        delta  == IF delta0 > GAP_SECONDS THEN 0 ELSE delta0
    IN  IF delta # 0
        THEN [at EXCEPT
                !.total_seconds = @ + delta,
                !.on_seconds = IF h[Len(h) - 1][2] THEN @ + delta ELSE @]
        ELSE at

\* RuntimeTracker.update, the part that changes the all-time accumulator;
\* h is the history after the append
Accumulate(at, h, now) ==
    LET delta0 == IF Len(h) > 1 THEN now - h[Len(h) - 1][1] ELSE 0
        delta  == IF delta0 > GAP_SECONDS THEN 0 ELSE delta0
    IN  IF delta > 0
        THEN [at EXCEPT
                !.total_seconds = @ + delta,
                !.on_seconds = IF h[Len(h) - 1][2] THEN @ + delta ELSE @]
        ELSE at

\* RuntimeTracker.update(is_on) at clock reading now
update(is_on, now) ==
    /\ history' = Append(history, <<now, is_on>>)
    /\ all_time' = Accumulate(all_time, history', now)

NoFile == [state |-> "absent", history |-> <<>>,
           all_time |-> [total_seconds |-> 0, on_seconds |-> 0, start_time |-> 0]]

CorruptFile == [NoFile EXCEPT !.state = "corrupt"]

\* the file after json.dump of the tracker: the write succeeds, or open()
\* raises and the file is as it was, or the dump raises and leaves a
\* truncated file; save() catches the exception
WriteRuntimeFile(h, at, outcome) ==
    CASE outcome = "ok" -> [state |-> "ok", history |-> h, all_time |-> at]
      [] outcome = "open_failed" -> runtime_file
      [] OTHER -> CorruptFile

WriteOutcomes == {"ok", "open_failed", "write_failed"}

\* mutant: a write that fails loses the samples held in memory
save_FailureDropsSamples(now, outcome) ==
    /\ history' = IF outcome = "ok" THEN prune(history, now) ELSE <<>>
    /\ runtime_file' = WriteRuntimeFile(history', all_time, outcome)
    /\ rt_removed' = Len(history) - Len(history')
    /\ UNCHANGED all_time

\* RuntimeTracker.save() at clock reading now: prune, then write
save(now, outcome) ==
    /\ history' = prune(history, now)
    /\ runtime_file' = WriteRuntimeFile(history', all_time, outcome)
    /\ rt_removed' = Len(history) - Len(history')
    /\ UNCHANGED all_time

\* the tracker as __init__ leaves it before load(), at clock reading now
FreshTracker(now) ==
    [history |-> <<>>,
     all_time |-> [total_seconds |-> 0, on_seconds |-> 0, start_time |-> now]]

\* mutant: load() restores the samples and keeps the counters of __init__
load_HistoryOnly(file, fresh) ==
    IF file.state = "ok"
    THEN [history |-> GetOr(file, "history", <<>>), all_time |-> fresh.all_time]
    ELSE fresh

\* RuntimeTracker.load on the tracker fresh: when the file exists and parses,
\* history = deque(data.get('history', [])) and
\* all_time = data.get('all_time', self.all_time); a json array of
\* [timestamp, flag] arrays is read back as the same sequence of pairs.
\* A missing file is not read; a file that does not parse raises before
\* either assignment.
load(file, fresh) ==
    IF file.state = "ok"
    THEN [history |-> GetOr(file, "history", <<>>),
          all_time |-> GetOr(file, "all_time", fresh.all_time)]
    ELSE fresh

-----------------------------------------------------------------------------
(* TapoDevice: the energy ledger                                           *)
(*                                                                         *)
(* A date is its day number; the key 'YYYY-MM-DD' orders as the day number *)
(* does.  The model calendar has months of DaysPerMonth days and years of  *)
(* MonthsPerYear months: the prefix 'YYYY-MM' of a key is MonthOf(d).      *)

DaysPerMonth == 4

MonthsPerYear == 2

MonthOf(d) == d \div DaysPerMonth

YearStart(d) == (d \div (DaysPerMonth * MonthsPerYear)) * (DaysPerMonth * MonthsPerYear)

\* KWH_PRICE in cents per kWh (default '0.25')
KWH_PRICE == 25

\* round(n / d) to the nearest integer, ties to even (Python's round)
RoundDiv(n, d) ==
    LET q == n \div d
        r == n % d
    IN  IF 2 * r < d THEN q
        ELSE IF 2 * r > d THEN q + 1
        ELSE IF q % 2 = 0 THEN q ELSE q + 1

\* {'kwh': round(kwh, 3), 'cost': round(kwh * price, 2)} for wh Wh
Entry(wh, price) == [kwh |-> wh, cost |-> RoundDiv(wh * price, 1000)]

NoEnergyFile == [state |-> "absent", all_history |-> <<>>]

\* no get_status call has been made yet
NoCall == [conn |-> "none"]

\* TapoDevice._persist: the write succeeds or raises; _persist catches it
persist(file, ah, outcome) ==
    CASE outcome = "ok" -> [state |-> "ok", all_history |-> ah]
      [] outcome = "open_failed" -> file
      [] OTHER -> [state |-> "corrupt", all_history |-> <<>>]

\* the ledger map seeded from a list of [date, kwh, cost] entries
RECURSIVE SeedFrom(_)
SeedFrom(entries) ==
    IF entries = <<>> THEN <<>>
    ELSE LET x == entries[Len(entries)]
         IN  (x.date :> [kwh |-> x.kwh, cost |-> x.cost])
             @@ SeedFrom(SubSeq(entries, 1, Len(entries) - 1))

\* TapoDevice.load_history on the ledger that __init__ has just emptied
load_history(file) ==
    IF file.state = "ok"
    THEN LET cached == GetOr(file, "history_7d", <<>>)
             ah     == GetOr(file, "all_history", <<>>)
         IN  [all_history |-> IF ah = <<>> /\ cached # <<>> THEN SeedFrom(cached)
                              ELSE ah,
              cached_history |-> cached]
    ELSE [all_history |-> <<>>, cached_history |-> <<>>]

\* mutant: an entry that exists is kept (first write wins)
record_daily_KeepExisting(ah, date_str, wh, price) ==
    ah @@ (date_str :> Entry(wh, price))

\* TapoDevice.record_daily: all_history[date_str] = {...}
record_daily(ah, date_str, wh, price) == (date_str :> Entry(wh, price)) @@ ah

\* mutant: save_history replaces the ledger by the fetched list
MergeAll_ReplacesLedger(ah, hist) == SeedFrom(hist)

\* TapoDevice.save_history, the merge loop: every entry of history is
\* written into all_history
RECURSIVE MergeAll(_, _)
MergeAll(ah, hist) ==
    IF hist = <<>> THEN ah
    ELSE MergeAll((hist[1].date :> [kwh |-> hist[1].kwh, cost |-> hist[1].cost]) @@ ah,
                  Tail(hist))

\* the loop of get_status after get_daily_history: only absent dates
RECURSIVE MergeAbsent(_, _)
MergeAbsent(ah, hist) ==
    IF hist = <<>> THEN ah
    ELSE MergeAbsent(IF hist[1].date \in DOMAIN ah THEN ah
                     ELSE (hist[1].date :> [kwh |-> hist[1].kwh, cost |-> hist[1].cost]) @@ ah,
                     Tail(hist))

HISTORY_DAYS_BACK == 6

\* history.sort(key=lambda x: x['date'])
RECURSIVE SortByDate(_)
SortByDate(hist) ==
    IF hist = <<>> THEN <<>>
    ELSE LET first == CHOOSE i \in 1..Len(hist) :
                        /\ \A j \in 1..Len(hist) : hist[i].date <= hist[j].date
                        /\ \A j \in 1..(i - 1) : hist[j].date # hist[i].date
         IN  <<hist[first]>> \o
             SortByDate(SubSeq(hist, 1, first - 1) \o SubSeq(hist, first + 1, Len(hist)))

\* the list get_daily_history builds from the device's answer
DailyList(today, daily, price) ==
    LET start_date == today - HISTORY_DAYS_BACK
    IN  IF daily.kind = "entries"
        THEN [i \in 1..Len(daily.entries) |->
                [date |-> daily.entries[i].date,
                 kwh  |-> daily.entries[i].wh,
                 cost |-> RoundDiv(daily.entries[i].wh * price, 1000)]]
        ELSE IF daily.kind = "data"
        THEN [i \in 1..Len(daily.data) |->
                [date |-> start_date + (i - 1),
                 kwh  |-> daily.data[i],
                 cost |-> RoundDiv(daily.data[i] * price, 1000)]]
        ELSE <<>>

\* TapoDevice.get_daily_history: [ret, ah, cached, wrote]
get_daily_history(ah, cached, today, daily, price) ==
    IF daily.kind = "fail"
    THEN [ret |-> cached, ah |-> ah, cached |-> cached, wrote |-> FALSE]
    ELSE LET hist == SortByDate(DailyList(today, daily, price))
         IN  IF hist # <<>>
             THEN [ret |-> hist, ah |-> MergeAll(ah, hist), cached |-> hist,
                   wrote |-> TRUE]
             ELSE [ret |-> cached, ah |-> ah, cached |-> cached, wrote |-> FALSE]

\* mutant: the summary is written for every month with positive energy
RECURSIVE MonthlyBackfill_Overwrites(_, _, _, _, _)
MonthlyBackfill_Overwrites(ah, today, data, idx, price) ==
    IF idx > Len(data) THEN ah
    ELSE LET month == MonthOf(YearStart(today)) + (idx - 1)
             summary_key == month * DaysPerMonth
         IN  MonthlyBackfill_Overwrites(
                 IF data[idx] > 0
                 THEN (summary_key :> Entry(data[idx], price)) @@ ah
                 ELSE ah,
                 today, data, idx + 1, price)

\* the monthly backfill loop of get_status
RECURSIVE MonthlyBackfill(_, _, _, _, _)
MonthlyBackfill(ah, today, data, idx, price) ==
    IF idx > Len(data) THEN ah
    ELSE LET month == MonthOf(YearStart(today)) + (idx - 1)
             has_daily_data == \E d \in DOMAIN ah : MonthOf(d) = month
             summary_key == month * DaysPerMonth
         IN  MonthlyBackfill(
                 IF data[idx] > 0 /\ ~has_daily_data
                 THEN (summary_key :> Entry(data[idx], price)) @@ ah
                 ELSE ah,
                 today, data, idx + 1, price)

\* the ledger after the three passes of get_status
LedgerAfterLive(c) == record_daily(all_history, c.today, c.today_wh, KWH_PRICE)

LedgerAfterDaily(c) ==
    LET r == get_daily_history(LedgerAfterLive(c), cached_history, c.today,
                               c.daily, KWH_PRICE)
    IN  MergeAbsent(r.ah, r.ret)

LedgerAfterMonthly(c) ==
    IF c.monthly.kind = "data" /\ c.monthly.data # <<>>
    THEN MonthlyBackfill(LedgerAfterDaily(c), c.today, c.monthly.data, 1, KWH_PRICE)
    ELSE LedgerAfterDaily(c)

\* TapoDevice.get_status with the device's answers c; when the first device
\* calls raise, nothing is recorded and the snapshot is unavailable.  Every
\* pass that changes the ledger ends with _persist, so with one disk outcome
\* for the call the file holds the final ledger, is as it was, or is
\* truncated.
tapo_get_status(c) ==
    IF c.conn = "fail"
    THEN UNCHANGED <<all_history, cached_history, energy_file>>
    ELSE /\ all_history' = LedgerAfterMonthly(c)
         /\ cached_history' =
              get_daily_history(LedgerAfterLive(c), cached_history, c.today,
                                c.daily, KWH_PRICE).cached
         /\ energy_file' = persist(energy_file, all_history', c.disk)

\* the snapshot get_status returns
tapo_snapshot(c) ==
    IF c.conn = "fail"
    THEN [available |-> FALSE]
    ELSE [available |-> TRUE, is_on |-> c.is_on, current_power_w |-> c.power,
          today_kwh |-> c.today_wh]

-----------------------------------------------------------------------------
(* app.py: configuration *)

\* mutant: the heater loop is enabled unless the stored settings disable it
load_heater_settings_EnabledByDefault(saved) ==
    saved @@ [enabled |-> TRUE, night_temp |-> 200]

\* load_heater_settings: {**defaults, **saved}; saved is <<>> when no file;
\* 'sensor_address': None is the absent field
load_heater_settings(saved) ==
    saved @@ [enabled |-> FALSE, night_temp |-> 200]

\* load_light_schedule: a time 'HH:MM' is <<hour digits, minute digits>>
load_light_schedule(saved) ==
    saved @@ [enabled |-> FALSE, on_time |-> <<<<0, 6>>, <<0, 0>>>>,
              off_time |-> <<<<0, 0>>, <<0, 0>>>>]

\* load_fan_settings
load_fan_settings(saved) == saved @@ [day |-> 75, night |-> 30]

\* int(s) of a string of decimal digits, given as the sequence of its digits
RECURSIVE int(_)
int(digits) ==
    IF digits = <<>> THEN 0
    ELSE 10 * int(SubSeq(digits, 1, Len(digits) - 1)) + digits[Len(digits)]

\* int(os.getenv('FAN_HUMIDITY_ON', 10)), int(os.getenv('FAN_HUMIDITY_OFF', 5))
fan_humidity_on(env) ==
    IF "FAN_HUMIDITY_ON" \in DOMAIN env THEN int(env.FAN_HUMIDITY_ON) ELSE 10

fan_humidity_off(env) ==
    IF "FAN_HUMIDITY_OFF" \in DOMAIN env THEN int(env.FAN_HUMIDITY_OFF) ELSE 5

-----------------------------------------------------------------------------
(* app.py: the control loops and the notification rules, as functions of   *)
(* the tick's status and the loop's state                                  *)

POWER_THRESHOLD == 200

HEATER_CHECK_INTERVAL == 300

SAVE_INTERVAL == 60

UPDATE_INTERVAL == 5

Cmd(dev, op, arg) == [dev |-> dev, op |-> op, arg |-> arg]

Available(d) == Truthy(Get(d, "available"))

\* wiz.get('available') and wiz.get('is_on')
IsDay(wiz) == Available(wiz) /\ Truthy(Get(wiz, "is_on"))

\* mutant: the override is dropped when a reading is missing
FanOverride_ResetsOnMissing(active, dreo, env) ==
    IF /\ Available(dreo)
       /\ Get(dreo, "current_humidity") # None
       /\ Get(dreo, "target_humidity") # None
    THEN LET trigger_level == dreo.target_humidity + fan_humidity_on(env)
             release_level == dreo.target_humidity + fan_humidity_off(env)
         IN  IF active
             THEN ~(dreo.current_humidity < release_level)
             ELSE dreo.current_humidity >= trigger_level
    ELSE FALSE

\* mutant: the override is released below the trigger level plus one
FanOverride_ReleaseAboveTrigger(active, dreo, env) ==
    IF /\ Available(dreo)
       /\ Get(dreo, "current_humidity") # None
       /\ Get(dreo, "target_humidity") # None
    THEN LET trigger_level == dreo.target_humidity + fan_humidity_on(env)
         IN  IF active
             THEN ~(dreo.current_humidity < trigger_level + 1)
             ELSE dreo.current_humidity >= trigger_level
    ELSE active

\* mutant: the override is entered only above the trigger level
FanOverride_StrictTrigger(active, dreo, env) ==
    IF /\ Available(dreo)
       /\ Get(dreo, "current_humidity") # None
       /\ Get(dreo, "target_humidity") # None
    THEN LET trigger_level == dreo.target_humidity + fan_humidity_on(env)
             release_level == dreo.target_humidity + fan_humidity_off(env)
         IN  IF active
             THEN ~(dreo.current_humidity < release_level)
             ELSE dreo.current_humidity > trigger_level
    ELSE active

\* check_fan_control, part 1: the override after the tick's transition
FanOverride(active, dreo, env) ==
    IF /\ Available(dreo)
       /\ Get(dreo, "current_humidity") # None
       /\ Get(dreo, "target_humidity") # None
    THEN LET trigger_level == dreo.target_humidity + fan_humidity_on(env)
             release_level == dreo.target_humidity + fan_humidity_off(env)
         IN  IF active
             THEN ~(dreo.current_humidity < release_level)
             ELSE dreo.current_humidity >= trigger_level
    ELSE active

\* mutant: an unavailable light counts as day
FanTargetSpeed_DayWhenLightDown(should_override, wiz, settings) ==
    IF should_override THEN 100
    ELSE IF ~Available(wiz) \/ IsDay(wiz) THEN settings.day ELSE settings.night

\* check_fan_control, part 2: the speed to enforce
FanTargetSpeed(should_override, wiz, settings) ==
    IF should_override THEN 100
    ELSE IF IsDay(wiz) THEN settings.day ELSE settings.night

\* mutant: the speed the loop has commanded is written into the snapshot
check_fan_control_UpdatesSnapshot(st, active, cfg) ==
    IF ~Available(st.fan)
    THEN [override |-> active, status |-> st, cmds |-> <<>>]
    ELSE LET over   == FanOverride(active, st.dreo, cfg.env)
             target == FanTargetSpeed(over, st.wiz, load_fan_settings(cfg.fan))
             speed  == Get(st.fan, "speed")
         IN  [override |-> over,
              status   |-> [st EXCEPT !.fan = ("humidity_override" :> over)
                                              @@ ("speed" :> target) @@ @],
              cmds     |-> IF speed # None /\ speed # {target}
                           THEN <<Cmd("fan", "set_speed", target)>>
                           ELSE <<>>]

\* check_fan_control: [override, status, cmds]
check_fan_control(st, active, cfg) ==
    IF ~Available(st.fan)
    THEN [override |-> active, status |-> st, cmds |-> <<>>]
    ELSE LET over   == FanOverride(active, st.dreo, cfg.env)
             target == FanTargetSpeed(over, st.wiz, load_fan_settings(cfg.fan))
             speed  == Get(st.fan, "speed")
         IN  [override |-> over,
              status   |-> [st EXCEPT !.fan = ("humidity_override" :> over) @@ @],
              cmds     |-> IF speed # None /\ speed # {target}
                           THEN <<Cmd("fan", "set_speed", target)>>
                           ELSE <<>>]

\* the valid sensors of a temperature snapshot
ValidSensors(sensors) == SelectSeq(sensors, LAMBDA x : Truthy(Get(x, "valid")))

RECURSIVE SumTemps(_)
SumTemps(sensors) ==
    IF sensors = <<>> THEN 0 ELSE sensors[1].temp_c + SumTemps(Tail(sensors))

\* mutant: when the configured sensor is absent or not valid, the mean of
\* the valid sensors is used
HeaterReading_FallsBackToMean(temp_data, settings) ==
    IF ~Available(temp_data) THEN [sum |-> 0, n |-> 0]
    ELSE LET valid == ValidSensors(GetOr(temp_data, "sensors", <<>>))
             addr  == Get(settings, "sensor_address")
             found == SelectSeq(valid, LAMBDA x : {x.address} = addr)
         IN  IF addr # None /\ addr # {"average"} /\ found # <<>>
             THEN [sum |-> found[1].temp_c, n |-> 1]
             ELSE [sum |-> SumTemps(valid), n |-> Len(valid)]

\* the reading check_heater_control uses at night, as the fraction
\* [sum, n] (n = 0: no reading, the evaluation returns)
HeaterReading(temp_data, settings) ==
    IF ~Available(temp_data) THEN [sum |-> 0, n |-> 0]
    ELSE LET sensors == GetOr(temp_data, "sensors", <<>>)
             addr    == Get(settings, "sensor_address")
         IN  IF addr # None /\ addr # {"average"}
             THEN LET found == SelectSeq(sensors, LAMBDA x : {x.address} = addr)
                  IN  IF found # <<>> /\ Truthy(Get(found[1], "valid"))
                      THEN [sum |-> found[1].temp_c, n |-> 1]
                      ELSE [sum |-> 0, n |-> 0]
             ELSE LET valid == ValidSensors(sensors)
                  IN  [sum |-> SumTemps(valid), n |-> Len(valid)]

\* mutant: the bounds of the dead band switch the heater as well
Thermostat_BandExclusive(r, target_temp, heater) ==
    IF r.sum <= (target_temp - 5) * r.n
    THEN IF ~(Available(heater) /\ Truthy(Get(heater, "is_on")))
         THEN <<Cmd("heater", "turn_on", 0)>> ELSE <<>>
    ELSE IF r.sum >= (target_temp + 5) * r.n
    THEN IF Available(heater) /\ Truthy(Get(heater, "is_on"))
         THEN <<Cmd("heater", "turn_off", 0)>> ELSE <<>>
    ELSE <<>>

\* the thermostat of check_heater_control (night): temperatures in tenths
\* of a degree, avg = r.sum / r.n
Thermostat(r, target_temp, heater) ==
    IF r.sum < (target_temp - 5) * r.n
    THEN IF ~(Available(heater) /\ Truthy(Get(heater, "is_on")))
         THEN <<Cmd("heater", "turn_on", 0)>> ELSE <<>>
    ELSE IF r.sum > (target_temp + 5) * r.n
    THEN IF Available(heater) /\ Truthy(Get(heater, "is_on"))
         THEN <<Cmd("heater", "turn_off", 0)>> ELSE <<>>
    ELSE <<>>

\* mutant: every iteration evaluates
Throttled_Never(now, last_check) == FALSE

\* if now - last_heater_check_time < HEATER_CHECK_INTERVAL: return
Throttled(now, last_check) == now - last_check < HEATER_CHECK_INTERVAL

\* mutant: by day a heater that does not report on is turned on, available
\* or not
HeaterDayMode_IgnoresAvailability(heater) ==
    IF ~Truthy(Get(heater, "is_on")) THEN <<Cmd("heater", "turn_on", 0)>> ELSE <<>>

\* check_heater_control by day: the heater is turned on if it reports off
HeaterDayMode(heater) ==
    IF Available(heater) /\ ~Truthy(Get(heater, "is_on"))
    THEN <<Cmd("heater", "turn_on", 0)>> ELSE <<>>

\* mutant: an evaluation that finds no reading leaves the timestamp alone
check_heater_control_SkipKeepsSlot(st, last_check, cfg, now) ==
    LET settings == load_heater_settings(cfg.heater)
        r        == HeaterReading(st.temp, settings)
    IN  IF ~settings.enabled
        THEN [last_check |-> last_check, cmds |-> <<>>]
        ELSE IF Throttled(now, last_check)
        THEN [last_check |-> last_check, cmds |-> <<>>]
        ELSE IF IsDay(st.wiz)
        THEN [last_check |-> now, cmds |-> HeaterDayMode(st.heater)]
        ELSE IF r.n = 0
        THEN [last_check |-> last_check, cmds |-> <<>>]
        ELSE [last_check |-> now,
              cmds |-> Thermostat(r, settings.night_temp, st.heater)]

\* check_heater_control at clock reading now: [last_check, cmds]
check_heater_control(st, last_check, cfg, now) ==
    LET settings == load_heater_settings(cfg.heater)
    IN  IF ~settings.enabled
        THEN [last_check |-> last_check, cmds |-> <<>>]
        ELSE IF Throttled(now, last_check)
        THEN [last_check |-> last_check, cmds |-> <<>>]
        ELSE [last_check |-> now,
              cmds |->
                IF IsDay(st.wiz)
                THEN HeaterDayMode(st.heater)
                ELSE LET r == HeaterReading(st.temp, settings)
                     IN  IF r.n = 0 THEN <<>>
                         ELSE Thermostat(r, settings.night_temp, st.heater)]

\* on_hour, on_min = map(int, s.split(':')); on_hour * 60 + on_min
Minutes(t) == int(t[1]) * 60 + int(t[2])

\* datetime.now(): hour * 60 + minute of the clock reading
NowMinutes(now) == (now \div 60) % 1440

\* mutant: equal times are an empty same-day window
ShouldBeOn_EqualIsEmpty(on_minutes, off_minutes, now_minutes) ==
    IF on_minutes <= off_minutes
    THEN on_minutes <= now_minutes /\ now_minutes < off_minutes
    ELSE now_minutes >= on_minutes \/ now_minutes < off_minutes

\* check_light_schedule: should_be_on
ShouldBeOn(on_minutes, off_minutes, now_minutes) ==
    IF on_minutes < off_minutes
    THEN on_minutes <= now_minutes /\ now_minutes < off_minutes
    ELSE now_minutes >= on_minutes \/ now_minutes < off_minutes

\* check_light_schedule at clock reading now: the commands it issues
check_light_schedule(st, cfg, now) ==
    LET schedule == load_light_schedule(cfg.light)
    IN  IF ~schedule.enabled THEN <<>>
        ELSE LET should_be_on == ShouldBeOn(Minutes(schedule.on_time),
                                            Minutes(schedule.off_time),
                                            NowMinutes(now))
                 is_on == GetOr(st.wiz, "is_on", FALSE)
             IN  IF ~Available(st.wiz) THEN <<>>
                 ELSE IF should_be_on /\ ~is_on
                 THEN <<Cmd("wiz", "turn_on", 0)>>
                 ELSE IF ~should_be_on /\ is_on
                 THEN <<Cmd("wiz", "turn_off", 0)>>
                 ELSE <<>>

\* mutant: a reading at the threshold counts as above
IsAbove_Inclusive(power) == power >= POWER_THRESHOLD

\* power > POWER_THRESHOLD
IsAbove(power) == power > POWER_THRESHOLD

\* mutant: the first observation notifies as well
NotifyWiz_FirstNotifies(wiz, last) ==
    IF Available(wiz)
    THEN [last  |-> Get(wiz, "is_on"),
          notes |-> IF Get(wiz, "is_on") # last THEN <<"wiz-state">> ELSE <<>>]
    ELSE [last |-> last, notes |-> <<>>]

\* check_push_notifications, the light rule: [last, notes]
NotifyWiz(wiz, last) ==
    IF Available(wiz)
    THEN [last  |-> Get(wiz, "is_on"),
          notes |-> IF last # None /\ Get(wiz, "is_on") # last
                    THEN <<"wiz-state">> ELSE <<>>]
    ELSE [last |-> last, notes |-> <<>>]

\* check_push_notifications, the power rule: [last, notes]
NotifyPower(tapo, last) ==
    IF Available(tapo)
    THEN LET is_above == IsAbove(GetOr(tapo, "current_power_w", 0))
         IN  [last  |-> is_above,
              notes |-> IF is_above /\ ~last THEN <<"power-alert">> ELSE <<>>]
    ELSE [last |-> last, notes |-> <<>>]

\* the cooldowns of the water and of the humidity rule
\* 4 * 60 * 60
WATER_COOLDOWN == 14400

\* 15 * 60
HUMIDITY_COOLDOWN == 900

\* mutant: a water alert is sent again exactly 4 hours after the last
NotifyWater_CooldownInclusive(dreo, last, now) ==
    IF Available(dreo) /\ Truthy(Get(dreo, "water_tank_empty"))
       /\ now - last >= WATER_COOLDOWN
    THEN [last |-> now, notes |-> <<"water-alert">>]
    ELSE [last |-> last, notes |-> <<>>]

\* check_push_notifications, the water rule (4 hour cooldown)
NotifyWater(dreo, last, now) ==
    IF Available(dreo) /\ Truthy(Get(dreo, "water_tank_empty"))
       /\ now - last > WATER_COOLDOWN
    THEN [last |-> now, notes |-> <<"water-alert">>]
    ELSE [last |-> last, notes |-> <<>>]

\* check_push_notifications, the humidity rule (15 minute cooldown)
NotifyHumidityLow(dreo, last, now) ==
    IF /\ Available(dreo)
       /\ Get(dreo, "current_humidity") # None
       /\ Get(dreo, "target_humidity") # None
    THEN IF dreo.current_humidity < dreo.target_humidity - 5
            /\ now - last > HUMIDITY_COOLDOWN
         THEN [last |-> now, notes |-> <<"humidity-low">>]
         ELSE [last |-> last, notes |-> <<>>]
    ELSE [last |-> last, notes |-> <<>>]

-----------------------------------------------------------------------------
(* app.py: get_all_device_status, and RuntimeTracker.get_metrics *)

\* calculate_window: round(on / total * 100, 1) over the samples at or after
\* the cutoff, in tenths of a percent
calculate_window(h, now, seconds) ==
    LET inside == SelectSeq(h, LAMBDA x : x[1] >= now - seconds)
        on     == SelectSeq(inside, LAMBDA x : x[2])
    IN  IF Len(inside) > 0 THEN RoundDiv(Len(on) * 1000, Len(inside)) ELSE 0

\* RuntimeTracker.get_metrics (the per-day and per-week lists are left out)
get_metrics(h, at, now) ==
    [day      |-> calculate_window(h, now, 24 * 3600),
     week     |-> calculate_window(h, now, 7 * 24 * 3600),
     all_time |-> IF at.total_seconds > 0
                  THEN RoundDiv(at.on_seconds * 1000, at.total_seconds) ELSE 0]

\* a device call that raised inside the device's get_status
Raised == [raised |-> TRUE]

\* mutant: a device call that raised is reported as available
get_device_status_StaleOk(answer, unavailable) ==
    IF answer = Raised THEN [available |-> TRUE] ELSE answer

\* the get_status wrapper of a device: every exception becomes the
\* unavailable snapshot
get_device_status(answer, unavailable) ==
    IF answer = Raised THEN unavailable ELSE answer

\* get_all_device_status for the devices' answers a and the meter's answers c
get_all_device_status(a, c, h, at, now) ==
    [wiz    |-> get_device_status(a.wiz, [available |-> FALSE]),
     heater |-> get_device_status(a.heater, [available |-> FALSE]),
     dreo   |-> [runtime_stats |-> get_metrics(h, at, now)]
                @@ get_device_status(a.dreo, [available |-> FALSE]),
     tapo   |-> tapo_snapshot(c),
     fan    |-> get_device_status(a.fan, [available |-> FALSE]),
     temp   |-> get_device_status(a.temp, [available |-> FALSE, sensors |-> <<>>])]

-----------------------------------------------------------------------------
(* app.py: background_update_thread.  One iteration of the loop is one     *)
(* action (Tick), the wait between two iterations another (Wait).  The     *)
(* clock is read once per iteration.  check_temp_logging and the           *)
(* temperature readings of the iteration touch none of the state below.    *)

\* bound on the number of iterations
MaxTicks == 6

\* bound on the number of iterations when the heater's inputs vary
MaxHeaterTicks == 2

\* bound on the number of iterations across restarts of the process
MaxRestartTicks == 3

\* bound on the number of iterations when the humidifier's alerts vary
MaxAlertTicks == 2

TickLimit(s) ==
    CASE s = "heater" -> MaxHeaterTicks
      [] s = "alerts" -> MaxAlertTicks
      [] s = "restart" -> MaxRestartTicks
      [] OTHER -> MaxTicks

\* midnight of the day the process is started on
Day0 == 20000 * 86400

WizDown == [available |-> FALSE]

WizSockets == {WizDown, [available |-> TRUE, is_on |-> TRUE],
               [available |-> TRUE, is_on |-> FALSE]}

DreoDown == [available |-> FALSE]

\* a humidifier snapshot; target_humidity is None in DreoNoTarget
DreoNoTarget(cur) ==
    [available |-> TRUE, is_on |-> TRUE, is_working |-> FALSE,
     current_humidity |-> cur, water_tank_empty |-> FALSE]

Dreo(cur, target) == [target_humidity |-> target] @@ DreoNoTarget(cur)

\* a humidifier snapshot whose current_humidity is None
DreoNoCurrent(target) ==
    [available |-> TRUE, is_on |-> TRUE, is_working |-> FALSE,
     target_humidity |-> target, water_tank_empty |-> FALSE]

FanDown == [available |-> FALSE]

TempDown == [available |-> FALSE, sensors |-> <<>>]

Sensor(addr, t) == [address |-> addr, temp_c |-> t, valid |-> TRUE]

BadSensor(addr) == [address |-> addr, temp_c |-> 0, valid |-> FALSE]

Temp(sensors) == [available |-> TRUE, sensors |-> sensors]

\* the device snapshots (all but the meter's) an iteration can fetch
Statuses(s) ==
    CASE s = "fan" ->
           [wiz : {WizDown, [available |-> TRUE, is_on |-> TRUE]},
            heater : {WizDown},
            dreo : {DreoDown, DreoNoTarget(60), DreoNoCurrent(50)}
                   \cup {Dreo(h, 50) : h \in {53, 54, 55, 57, 58, 59, 60}},
            fan : {FanDown, [available |-> TRUE],
                   [available |-> TRUE, speed |-> 30],
                   [available |-> TRUE, speed |-> 100]},
            temp : {TempDown}]
      [] s = "heater" ->
           [wiz : WizSockets,
            heater : WizSockets,
            dreo : {DreoDown},
            fan : {FanDown},
            temp : {TempDown, Temp(<<BadSensor("A"), Sensor("B", 194)>>),
                    Temp(<<Sensor("A", 194), Sensor("B", 196)>>)}
                   \cup {Temp(<<Sensor("A", t)>>) : t \in {194, 195, 196, 205, 206}}]
      [] s = "light" ->
           [wiz : WizSockets, heater : {WizDown}, dreo : {DreoDown},
            fan : {FanDown}, temp : {TempDown}]
      [] s = "restart" ->
           [wiz : {WizDown}, heater : {WizDown},
            dreo : {Dreo(50, 60), [Dreo(50, 60) EXCEPT !.is_working = TRUE]},
            fan : {FanDown}, temp : {TempDown}]
      [] s = "alerts" ->
           [wiz : {WizDown}, heater : {WizDown},
            dreo : {DreoDown, Dreo(44, 50), DreoNoTarget(44),
                    [Dreo(45, 50) EXCEPT !.water_tank_empty = TRUE,
                                         !.is_working = TRUE],
                    [Dreo(44, 50) EXCEPT !.water_tank_empty = TRUE,
                                         !.is_working = TRUE]},
            fan : {FanDown}, temp : {TempDown}]
      [] OTHER ->
           [wiz : {WizDown}, heater : {WizDown}, dreo : {DreoDown},
            fan : {FanDown}, temp : {TempDown}]

\* a time of day 'HH:MM'
Time(h, m) == <<<<h \div 10, h % 10>>, <<m \div 10, m % 10>>>>

ScheduleTimes == {Time(0, 0), Time(5, 0), Time(6, 0), Time(12, 0), Time(22, 0),
                  Time(23, 30)}

\* the settings files and the environment of a run
Configs(s) ==
    CASE s = "fan" ->
           [heater : {<<>>}, light : {<<>>}, fan : {<<>>, [day |-> 100]},
            env : {<<>>, [FAN_HUMIDITY_ON |-> <<8>>, FAN_HUMIDITY_OFF |-> <<4>>],
                   [FAN_HUMIDITY_ON |-> <<4>>, FAN_HUMIDITY_OFF |-> <<8>>]}]
      [] s = "heater" ->
           [heater : {<<>>, [enabled |-> FALSE, night_temp |-> 200],
                      [enabled |-> TRUE],
                      [enabled |-> TRUE, night_temp |-> 200, sensor_address |-> "A"],
                      [enabled |-> TRUE, sensor_address |-> "average"]},
            light : {<<>>}, fan : {<<>>}, env : {<<>>}]
      [] s \in {"sched", "live"} ->
           [heater : {<<>>}, light : {[enabled |-> TRUE]}, fan : {<<>>}, env : {<<>>}]
      [] s = "light" ->
           [heater : {<<>>},
            light : {<<>>, [enabled |-> TRUE]}
                    \cup [enabled : {TRUE}, on_time : ScheduleTimes,
                          off_time : ScheduleTimes],
            fan : {<<>>}, env : {<<>>}]
      [] OTHER -> [heater : {<<>>}, light : {<<>>}, fan : {<<>>}, env : {<<>>}]

\* the clock reading at which the process is started
StartClocks(s) ==
    CASE s = "light" ->
           {Day0 + h * 3600 + m * 60 - 60 :
              h \in {0, 5, 6, 12, 22, 23}, m \in {0, 30}}
      [] s = "none" -> {0}
      [] OTHER -> {Day0}

\* the time from the start of an iteration to the start of the next
Delays(s) ==
    CASE s = "heater" -> {UPDATE_INTERVAL, HEATER_CHECK_INTERVAL}
      [] s = "light" -> {60}
      [] s \in {"sched", "live"} -> {SAVE_INTERVAL + 1}
      [] s = "restart" -> {SAVE_INTERVAL + 1, MAX_HISTORY_SECONDS + 1}
      [] s = "alerts" -> {SAVE_INTERVAL + 1, HUMIDITY_COOLDOWN, HUMIDITY_COOLDOWN + 1,
                          WATER_COOLDOWN, WATER_COOLDOWN + 1}
      [] OTHER -> {UPDATE_INTERVAL}

PowerReadings == {150, 200, 250}

ExampleReadings == <<150, 150, 250, 260, 240, 210>>

\* the meter's answers to a get_status call made at clock reading now
TapoOk(p, now) ==
    [conn |-> "ok", today |-> now \div 86400, today_wh |-> 1000, is_on |-> TRUE,
     power |-> p, daily |-> [kind |-> "fail"], monthly |-> [kind |-> "fail"],
     disk |-> "ok"]

\* the meter's possible answers in iteration k + 1
TapoInputs(s, k, now) ==
    CASE s = "power" -> {[conn |-> "fail"]} \cup {TapoOk(p, now) : p \in PowerReadings}
      [] s = "sched" -> {[conn |-> "fail"], TapoOk(250, now)}
      [] s = "live" -> {TapoOk(250, now)}
      [] s = "restart" -> {TapoOk(150, now), [TapoOk(150, now) EXCEPT !.disk = "write_failed"]}
      [] s = "example" /\ k < Len(ExampleReadings) -> {TapoOk(ExampleReadings[k + 1], now)}
      [] OTHER -> {[conn |-> "fail"]}

\* the disk's outcomes for the save of an iteration, when it saves
SaveOutcomes(saving) == IF saving THEN WriteOutcomes ELSE {"ok"}

WorkerInit(scenarios) ==
    /\ scenario \in scenarios
    /\ pc = "tick"
    /\ clock \in StartClocks(scenario)
    /\ config \in Configs(scenario)
    /\ status = <<>>
    /\ humidity_override_active = FALSE
    /\ last_heater_check_time = 0
    /\ last_wiz_state = None
    /\ last_power_above_threshold = FALSE
    /\ last_water_notification_time = 0
    /\ last_humidity_low_notification_time = 0
    /\ last_save_time = clock
    /\ cmds = <<>>
    /\ notes = <<>>
    /\ observed_power = <<>>
    /\ power_alerts = 0
    /\ ticks = 0
    /\ stop_event = FALSE
    /\ main = "serving"
    /\ failed = {}
    /\ send_raised = FALSE
    /\ step_log = <<>>
    /\ emits = 0
    /\ published = <<>>
    /\ final_saves = 0
    /\ inputs_log = <<>>
    /\ outputs_log = <<>>
    /\ rpc = "idle"
    /\ view = <<>>

\* mutant: a snapshot without is_working counts as active
is_working_DefaultTrue(dreo) == GetOr(dreo, "is_working", TRUE)

\* is_working = dreo.get('is_working', False)
is_working(dreo) == GetOr(dreo, "is_working", FALSE)

\* one iteration of the loop at clock reading `clock`
Tick ==
    /\ pc = "tick"
    /\ ticks < TickLimit(scenario)
    /\ \E st0 \in Statuses(scenario), c \in TapoInputs(scenario, ticks, clock),
          outcome \in SaveOutcomes(clock - last_save_time > SAVE_INTERVAL) :
         LET st     == get_all_device_status(st0, c, history, all_time, clock)
             nwiz   == NotifyWiz(st.wiz, last_wiz_state)
             npower == NotifyPower(st.tapo, last_power_above_threshold)
             nwater == NotifyWater(st.dreo, last_water_notification_time, clock)
             nhum   == NotifyHumidityLow(st.dreo, last_humidity_low_notification_time,
                                         clock)
             fan    == check_fan_control(st, humidity_override_active, config)
             heat   == check_heater_control(fan.status, last_heater_check_time,
                                            config, clock)
             light  == check_light_schedule(fan.status, config, clock)
             saving == clock - last_save_time > SAVE_INTERVAL
             hist   == Append(history, <<clock, is_working(st.dreo)>>)
         IN  \* get_all_device_status
             /\ tapo_get_status(c)
             /\ tapo_call' = IF c.conn = "ok"
                             THEN [conn |-> "ok", today |-> c.today,
                                   today_wh |-> c.today_wh]
                             ELSE [conn |-> "fail"]
             \* runtime_tracker.update(is_working)
             /\ all_time' = Accumulate(all_time, hist, clock)
             \* check_push_notifications
             /\ last_wiz_state' = nwiz.last
             /\ last_power_above_threshold' = npower.last
             /\ last_water_notification_time' = nwater.last
             /\ last_humidity_low_notification_time' = nhum.last
             /\ notes' = nwiz.notes \o npower.notes \o nwater.notes \o nhum.notes
             /\ observed_power' = IF Available(st.tapo)
                                  THEN Append(observed_power, st.tapo.current_power_w)
                                  ELSE observed_power
             /\ power_alerts' = power_alerts + Len(npower.notes)
             \* check_fan_control, check_heater_control, check_light_schedule
             /\ humidity_override_active' = fan.override
             /\ last_heater_check_time' = heat.last_check
             /\ cmds' = fan.cmds \o heat.cmds \o light
             \* runtime_tracker.save() when more than 60 s have passed
             /\ history' = IF saving THEN prune(hist, clock) ELSE hist
             /\ runtime_file' = IF saving
                                THEN WriteRuntimeFile(history', all_time', outcome)
                                ELSE runtime_file
             /\ rt_removed' = IF saving THEN Len(hist) - Len(history') ELSE rt_removed
             /\ last_save_time' = IF saving THEN clock ELSE last_save_time
             \* socketio.emit('status_update', status)
             /\ status' = fan.status
    /\ ticks' = ticks + 1
    /\ pc' = "wait"
    /\ UNCHANGED <<clock, config, scenario, schedVars>>

\* stop_event.wait(UPDATE_INTERVAL), and the time the iteration took
Wait ==
    /\ pc = "wait"
    /\ \E d \in Delays(scenario) : clock' = clock + d
    /\ pc' = "tick"
    /\ UNCHANGED <<trackerVars, ledgerVars, config, status, loopVars, cmds, notes,
                   observed_power, power_alerts, ticks, scenario, schedVars>>

WorkerNext == Tick \/ Wait

WorkerSpecInit(scenarios) ==
    /\ WorkerInit(scenarios)
    /\ history = <<>>
    /\ all_time = [total_seconds |-> 0, on_seconds |-> 0, start_time |-> clock]
    /\ runtime_file = NoFile
    /\ rt_removed = 0
    /\ all_history = <<>>
    /\ cached_history = <<>>
    /\ energy_file = NoEnergyFile
    /\ tapo_call = NoCall

SpecAlertsInit == WorkerSpecInit({"alerts"})

SpecAlerts == SpecAlertsInit /\ [][WorkerNext]_vars

SpecFanInit == WorkerSpecInit({"fan"})

SpecFan == SpecFanInit /\ [][WorkerNext]_vars

SpecHeaterInit == WorkerSpecInit({"heater"})

SpecHeater == SpecHeaterInit /\ [][WorkerNext]_vars

SpecLightInit == WorkerSpecInit({"light"})

SpecLight == SpecLightInit /\ [][WorkerNext]_vars

SpecPowerInit == WorkerSpecInit({"power", "example"})

SpecPower == SpecPowerInit /\ [][WorkerNext]_vars

\* the process ends between two iterations and a new process is started:
\* the module globals are initialised again, runtime_tracker = RuntimeTracker()
\* and the TapoDevice singleton are constructed, each loading its file
Restart ==
    /\ pc = "wait"
    /\ \E d \in Delays(scenario) : clock' = clock + d
    /\ LET t == load(runtime_file, FreshTracker(clock'))
           l == load_history(energy_file)
       IN  /\ history' = t.history
           /\ all_time' = t.all_time
           /\ rt_removed' = 0
           /\ all_history' = l.all_history
           /\ cached_history' = l.cached_history
           /\ tapo_call' = [conn |-> "loaded"]
    /\ humidity_override_active' = FALSE
    /\ last_heater_check_time' = 0
    /\ last_wiz_state' = None
    /\ last_power_above_threshold' = FALSE
    /\ last_water_notification_time' = 0
    /\ last_humidity_low_notification_time' = 0
    /\ last_save_time' = clock'
    /\ status' = <<>>
    /\ cmds' = <<>>
    /\ notes' = <<>>
    /\ pc' = "tick"
    /\ UNCHANGED <<runtime_file, energy_file, config, observed_power, power_alerts,
                   ticks, scenario, schedVars>>

RestartNext == WorkerNext \/ Restart

SpecRestartInit == WorkerSpecInit({"restart"})

SpecRestart == SpecRestartInit /\ [][RestartNext]_vars

-----------------------------------------------------------------------------
(* app.py: background_update_thread step by step, with the main thread     *)
(* (__main__) and one status request served by another thread              *)
(* (api_get_all_status, handle_connect, handle_request_update).            *)
(* A step of the worker is one statement of the loop body; update() is two *)
(* steps, the append and the accumulation, because another thread can run  *)
(* between them.                                                           *)

\* bound on the number of iterations of the stepped worker
MaxSchedTicks == 2

\* the answers of the devices' calls in an iteration: a snapshot, or Raised
Answers(s) ==
    CASE s = "sched" ->
           [wiz : {Raised, [available |-> TRUE, is_on |-> TRUE]},
            heater : {Raised},
            dreo : {Dreo(60, 50)},
            fan : {Raised, [available |-> TRUE, speed |-> 30]},
            temp : {Raised}]
      [] OTHER ->
           [wiz : {[available |-> TRUE, is_on |-> TRUE]}, heater : {Raised},
            dreo : {[Dreo(44, 50) EXCEPT !.water_tank_empty = TRUE]},
            fan : {[available |-> TRUE, speed |-> 30]},
            temp : {Raised}]

Devices == {"wiz", "heater", "dreo", "fan", "temp"}

\* the outcomes of send_push_notification
SendOutcomes == {"ok", "raises"}

\* mutant: a send that raises makes the iteration skip the control loops
AfterSend_SkipsLoops(outcome) == IF outcome = "raises" THEN "save" ELSE "fan"

\* mutant: the exception of a send leaves the loop body
AfterSend_Propagates(outcome) == IF outcome = "raises" THEN "wait" ELSE "fan"

\* where the loop body continues after a send: every send of
\* check_push_notifications is inside try / except: pass
AfterSend(outcome) == "fan"

\* the statements of the loop body whose exception reaches the except
\* clause of the loop: get_all_device_status and socketio.emit
RaisingSteps == {"fetch", "emit"}

\* mutant: an exception ends the worker
AfterException_Terminates == "done"

\* where the worker continues after the except clause of the loop
AfterException == "wait"

\* while not stop_event.is_set()
LoopTest ==
    /\ pc = "tick"
    /\ main # "exited"
    /\ stop_event \/ ticks < MaxSchedTicks
    /\ IF stop_event
       THEN /\ pc' = "final_save"
            /\ UNCHANGED <<ticks, cmds, notes, failed, send_raised, step_log, emits>>
       ELSE /\ pc' = "fetch"
            /\ ticks' = ticks + 1
            /\ cmds' = <<>>
            /\ notes' = <<>>
            /\ failed' = {}
            /\ send_raised' = FALSE
            /\ step_log' = <<>>
            /\ emits' = 0
    /\ UNCHANGED <<trackerVars, ledgerVars, clock, config, status, loopVars,
                   observed_power, power_alerts, scenario, stop_event, main,
                   published, final_saves, inputs_log, outputs_log, rpc, view>>

\* status = get_all_device_status()
Fetch ==
    /\ pc = "fetch"
    /\ main # "exited"
    /\ \E a \in Answers(scenario), c \in TapoInputs(scenario, ticks, clock) :
         /\ status' = get_all_device_status(a, c, history, all_time, clock)
         /\ failed' = {d \in Devices : a[d] = Raised}
                      \cup (IF c.conn = "fail" THEN {"tapo"} ELSE {})
         /\ tapo_get_status(c)
         /\ tapo_call' = IF c.conn = "ok"
                         THEN [conn |-> "ok", today |-> c.today,
                               today_wh |-> c.today_wh]
                         ELSE [conn |-> "fail"]
    /\ inputs_log' = Append(inputs_log, [status |-> status', clock |-> clock])
    /\ step_log' = step_log \o <<"fetch", "ledger">>
    /\ pc' = "track"
    /\ UNCHANGED <<trackerVars, clock, config, loopVars, cmds, notes,
                   observed_power, power_alerts, ticks, scenario, stop_event, main,
                   send_raised, emits, published, final_saves, outputs_log, rpc,
                   view>>

\* runtime_tracker.update(is_working): self.history.append((now, is_on))
TrackAppend ==
    /\ pc = "track"
    /\ history' = Append(history, <<clock, is_working(status.dreo)>>)
    /\ step_log' = Append(step_log, "track")
    /\ pc' = "track2"
    /\ UNCHANGED <<all_time, runtime_file, rt_removed, ledgerVars, clock, config,
                   status, loopVars, cmds, notes, observed_power, power_alerts,
                   ticks, scenario, stop_event, main, failed, send_raised, emits,
                   published, final_saves, inputs_log, outputs_log, rpc, view>>

\* runtime_tracker.update(is_working): the all-time accumulation
TrackAccumulate ==
    /\ pc = "track2"
    /\ all_time' = Accumulate(all_time, history, clock)
    /\ pc' = "notify"
    /\ UNCHANGED <<history, runtime_file, rt_removed, ledgerVars, clock, config,
                   status, loopVars, cmds, notes, observed_power, power_alerts,
                   ticks, scenario, schedVars>>

\* check_push_notifications(status)
NotifyStep ==
    /\ pc = "notify"
    /\ \E send \in SendOutcomes :
         LET nwiz   == NotifyWiz(status.wiz, last_wiz_state)
             npower == NotifyPower(status.tapo, last_power_above_threshold)
             nwater == NotifyWater(status.dreo, last_water_notification_time, clock)
             nhum   == NotifyHumidityLow(status.dreo,
                                         last_humidity_low_notification_time, clock)
         IN  /\ last_wiz_state' = nwiz.last
             /\ last_power_above_threshold' = npower.last
             /\ last_water_notification_time' = nwater.last
             /\ last_humidity_low_notification_time' = nhum.last
             /\ notes' = nwiz.notes \o npower.notes \o nwater.notes \o nhum.notes
             /\ power_alerts' = power_alerts + Len(npower.notes)
             /\ send_raised' = (send = "raises" /\ notes' # <<>>)
             /\ pc' = AfterSend(send)
    /\ observed_power' = IF Available(status.tapo)
                         THEN Append(observed_power, status.tapo.current_power_w)
                         ELSE observed_power
    /\ step_log' = Append(step_log, "notify")
    /\ UNCHANGED <<trackerVars, ledgerVars, clock, config, status,
                   humidity_override_active, last_heater_check_time, last_save_time,
                   cmds, ticks, scenario, stop_event, main, failed, emits, published,
                   final_saves, inputs_log, outputs_log, rpc, view>>

\* check_fan_control(status)
FanStep ==
    /\ pc = "fan"
    /\ LET fan == check_fan_control(status, humidity_override_active, config)
       IN  /\ humidity_override_active' = fan.override
           /\ status' = fan.status
           /\ cmds' = cmds \o fan.cmds
    /\ step_log' = Append(step_log, "fan")
    /\ pc' = "heater"
    /\ UNCHANGED <<trackerVars, ledgerVars, clock, config, last_heater_check_time,
                   last_wiz_state, last_power_above_threshold,
                   last_water_notification_time, last_humidity_low_notification_time,
                   last_save_time, notes, observed_power, power_alerts, ticks,
                   scenario, stop_event, main, failed, send_raised, emits, published,
                   final_saves, inputs_log, outputs_log, rpc, view>>

\* check_heater_control(status)
HeaterStep ==
    /\ pc = "heater"
    /\ LET heat == check_heater_control(status, last_heater_check_time, config, clock)
       IN  /\ last_heater_check_time' = heat.last_check
           /\ cmds' = cmds \o heat.cmds
    /\ step_log' = Append(step_log, "heater")
    /\ pc' = "light"
    /\ UNCHANGED <<trackerVars, ledgerVars, clock, config, status,
                   humidity_override_active, last_wiz_state,
                   last_power_above_threshold, last_water_notification_time,
                   last_humidity_low_notification_time, last_save_time, notes,
                   observed_power, power_alerts, ticks, scenario, stop_event, main,
                   failed, send_raised, emits, published, final_saves, inputs_log,
                   outputs_log, rpc, view>>

\* check_light_schedule(status)
LightStep ==
    /\ pc = "light"
    /\ cmds' = cmds \o check_light_schedule(status, config, clock)
    /\ outputs_log' = Append(outputs_log, [cmds |-> cmds', notes |-> notes])
    /\ step_log' = Append(step_log, "light")
    /\ pc' = "save"
    /\ UNCHANGED <<trackerVars, ledgerVars, clock, config, status, loopVars, notes,
                   observed_power, power_alerts, ticks, scenario, stop_event, main,
                   failed, send_raised, emits, published, final_saves, inputs_log,
                   rpc, view>>

\* if time.time() - last_save_time > 60: runtime_tracker.save()
SaveStep ==
    /\ pc = "save"
    /\ \E outcome \in SaveOutcomes(clock - last_save_time > SAVE_INTERVAL) :
         IF clock - last_save_time > SAVE_INTERVAL
         THEN /\ save(clock, outcome)
              /\ last_save_time' = clock
         ELSE UNCHANGED <<trackerVars, last_save_time>>
    /\ step_log' = Append(step_log, "save")
    /\ pc' = "emit"
    /\ UNCHANGED <<ledgerVars, clock, config, status, humidity_override_active,
                   last_heater_check_time, last_wiz_state,
                   last_power_above_threshold, last_water_notification_time,
                   last_humidity_low_notification_time, cmds, notes, observed_power,
                   power_alerts, ticks, scenario, stop_event, main, failed,
                   send_raised, emits, published, final_saves, inputs_log,
                   outputs_log, rpc, view>>

\* socketio.emit('status_update', status)
Emit ==
    /\ pc = "emit"
    /\ emits' = emits + 1
    /\ published' = status
    /\ step_log' = Append(step_log, "publish")
    /\ pc' = "wait"
    /\ UNCHANGED <<trackerVars, ledgerVars, workerVarsButPc, stop_event, main, failed,
                   send_raised, final_saves, inputs_log, outputs_log, rpc, view>>

\* except Exception as e: print(...)
RaiseStep ==
    /\ pc \in RaisingSteps
    /\ main # "exited"
    /\ pc' = AfterException
    /\ UNCHANGED <<trackerVars, ledgerVars, workerVarsButPc, schedVars>>

\* stop_event.wait(UPDATE_INTERVAL): returns at once when the event is set
SchedWait ==
    /\ pc = "wait"
    /\ IF stop_event THEN UNCHANGED clock
       ELSE \E d \in Delays(scenario) : clock' = clock + d
    /\ pc' = "tick"
    /\ UNCHANGED <<trackerVars, ledgerVars, config, status, loopVars, cmds, notes,
                   observed_power, power_alerts, ticks, scenario, schedVars>>

\* runtime_tracker.save() after the loop
FinalSave ==
    /\ pc = "final_save"
    /\ \E outcome \in WriteOutcomes : save(clock, outcome)
    /\ final_saves' = final_saves + 1
    /\ pc' = "done"
    /\ UNCHANGED <<ledgerVars, workerVarsButPc, stop_event, main, failed, send_raised,
                   step_log, emits, published, inputs_log, outputs_log, rpc, view>>

\* __main__: finally: stop_event.set()
SetStop ==
    /\ main = "serving"
    /\ stop_event' = TRUE
    /\ main' = "joining"
    /\ UNCHANGED <<trackerVars, ledgerVars, workerVars, failed, send_raised, step_log,
                   emits, published, final_saves, inputs_log, outputs_log, rpc, view>>

\* update_thread.join(timeout=2) returns because the worker has ended
JoinReturns ==
    /\ main = "joining"
    /\ pc = "done"
    /\ main' = "exited"
    /\ UNCHANGED <<trackerVars, ledgerVars, workerVars, stop_event, failed,
                   send_raised, step_log, emits, published, final_saves, inputs_log,
                   outputs_log, rpc, view>>

\* update_thread.join(timeout=2) returns after 2 s while the worker is still
\* inside the device calls of get_all_device_status (each has a timeout of
\* several seconds); the main thread ends and the daemon worker with it
JoinTimeout ==
    /\ main = "joining"
    /\ pc = "fetch"
    /\ main' = "exited"
    /\ pc' = "killed"
    /\ UNCHANGED <<trackerVars, ledgerVars, workerVarsButPc, stop_event, failed,
                   send_raised, step_log, emits, published, final_saves, inputs_log,
                   outputs_log, rpc, view>>

\* a status request, first part: get_metrics starts to iterate self.history
RequestBegin ==
    /\ rpc = "idle"
    /\ main # "exited"
    /\ rpc' = "metrics"
    /\ view' = [hist |-> history]
    /\ UNCHANGED <<trackerVars, ledgerVars, workerVars, stop_event, main, failed,
                   send_raised, step_log, emits, published, final_saves, inputs_log,
                   outputs_log>>

\* a status request, second part: get_metrics reads self.all_time, then
\* get_all_device_status calls the devices, get_tapo_status among them
RequestEnd ==
    /\ rpc = "metrics"
    /\ main # "exited"
    /\ rpc' = "done"
    /\ view' = [hist |-> view.hist, all_time |-> all_time,
                mutated |-> history # view.hist]
    /\ \E c \in TapoInputs(scenario, ticks, clock) :
         /\ tapo_get_status(c)
         /\ tapo_call' = IF c.conn = "ok"
                         THEN [conn |-> "ok", today |-> c.today,
                               today_wh |-> c.today_wh]
                         ELSE [conn |-> "fail"]
    /\ UNCHANGED <<trackerVars, workerVars, stop_event, main, failed, send_raised,
                   step_log, emits, published, final_saves, inputs_log, outputs_log>>

\* the steps of the loop
LoopSteps ==
    \/ LoopTest \/ Fetch \/ TrackAppend \/ TrackAccumulate \/ NotifyStep
    \/ FanStep \/ HeaterStep \/ LightStep \/ SaveStep \/ Emit \/ RaiseStep
    \/ SchedWait

SchedWorker == LoopSteps \/ FinalSave

\* the worker and the main thread
SchedNext == SchedWorker \/ SetStop \/ JoinReturns \/ JoinTimeout

SpecSchedInit == WorkerSpecInit({"sched"})

SpecSched == SpecSchedInit /\ [][SchedNext]_vars

\* the same with one fixed answer per device, and a worker thread that is
\* always scheduled again
SpecLiveInit == WorkerSpecInit({"live"})

SpecLive == SpecLiveInit /\ [][SchedNext]_vars /\ WF_vars(SchedWorker)

\* the worker and a status request, while the server runs
ServeNext == LoopSteps \/ RequestBegin \/ RequestEnd

SpecServe == SpecSchedInit /\ [][ServeNext]_vars

-----------------------------------------------------------------------------
(* The tracker driven directly: any sequence of update, save and prune     *)
(* calls with any clock readings.                                          *)

TrackerClocks == {0, 1, 301, 604801}

TrackerInit ==
    /\ history = <<>>
    /\ all_time = [total_seconds |-> 0, on_seconds |-> 0, start_time |-> clock]
    /\ runtime_file = NoFile
    /\ rt_removed = 0

LedgerInit ==
    /\ all_history = <<>>
    /\ cached_history = <<>>
    /\ energy_file = NoEnergyFile
    /\ tapo_call = NoCall

SpecTrackerInit == WorkerInit({"none"}) /\ TrackerInit /\ LedgerInit

CallUpdate ==
    \E is_on \in BOOLEAN, now \in TrackerClocks :
        /\ Len(history) < MaxSamples
        /\ all_time.total_seconds <= MaxTotalSeconds
        /\ update(is_on, now)
        /\ UNCHANGED <<runtime_file, rt_removed, ledgerVars, workerVars, schedVars>>

CallSave ==
    \E now \in TrackerClocks, outcome \in WriteOutcomes :
        /\ save(now, outcome)
        /\ UNCHANGED <<ledgerVars, workerVars, schedVars>>

CallPrune ==
    \E now \in TrackerClocks :
        /\ history' = prune(history, now)
        /\ rt_removed' = Len(history) - Len(history')
        /\ UNCHANGED <<all_time, runtime_file, ledgerVars, workerVars, schedVars>>

TrackerNext == CallUpdate \/ CallSave \/ CallPrune

SpecTracker == SpecTrackerInit /\ [][TrackerNext]_vars

-----------------------------------------------------------------------------
(* Claims about the runtime tracker *)

\* C5: in every reachable state of the tracker, under any sequence of
\* update, save and prune calls with any clock readings,
\* 0 <= all_time.on_seconds <= all_time.total_seconds.
C5_OnWithinTotal ==
    /\ 0 <= all_time.on_seconds
    /\ all_time.on_seconds <= all_time.total_seconds

\* an active and an inactive interval have both been counted
C5_Witness ==
    /\ all_time.on_seconds > 0
    /\ all_time.on_seconds < all_time.total_seconds

\* C6: an update at time now, with delta = now - (timestamp of the previous
\* sample), leaves both counters unchanged when there is no previous sample
\* or delta > 300; when 0 < delta <= 300 it adds exactly delta to
\* total_seconds, and exactly delta to on_seconds iff the previous sample
\* was active, whatever the new sample's flag.
C6_UpdateAccounting ==
    [][\A is_on \in BOOLEAN, now \in TrackerClocks :
         history' = Append(history, <<now, is_on>>) =>
           LET n     == Len(history)
               delta == now - history[n][1]
           IN  /\ (n = 0 \/ delta > 300) => all_time' = all_time
               /\ (n > 0 /\ 0 < delta /\ delta <= 300) =>
                    /\ all_time'.total_seconds = all_time.total_seconds + delta
                    /\ all_time'.on_seconds =
                         all_time.on_seconds + (IF history[n][2] THEN delta ELSE 0)
                    /\ all_time'.start_time = all_time.start_time]_vars

\* an interval of exactly 300 s after an active sample has been counted, and
\* the sample that closed it is inactive
C6_Witness ==
    /\ Len(history) >= 2
    /\ history[Len(history)][1] - history[Len(history) - 1][1] = 300
    /\ history[Len(history) - 1][2]
    /\ ~history[Len(history)][2]
    /\ all_time.on_seconds = 300
    /\ all_time.total_seconds = 300

Chronological(h) == \A i \in 1..(Len(h) - 1) : h[i][1] <= h[i + 1][1]

\* the samples of h at or after the cutoff, in their order
InWindow(h, now) == SelectSeq(h, LAMBDA s : s[1] >= now - 7 * 24 * 3600)

\* C7: on a chronologically ordered history, save() at time T removes
\* exactly the samples older than T - 7*24*3600 and keeps the others in
\* their order; update() only appends.
C7_PruneExact ==
    [][/\ \A now \in TrackerClocks, outcome \in WriteOutcomes :
            (Chronological(history) /\ save(now, outcome)) =>
                history' = InWindow(history, now)
       /\ CallUpdate =>
            /\ Len(history') = Len(history) + 1
            /\ SubSeq(history', 1, Len(history)) = history]_vars

\* a save has dropped an old sample, kept the sample exactly at the cutoff,
\* and written what it kept
C7_Witness ==
    /\ rt_removed = 1
    /\ Len(history) = 1
    /\ history[1][1] = 604801 - MAX_HISTORY_SECONDS
    /\ runtime_file.state = "ok"
    /\ runtime_file.history = history

\* C33: over any sequence of update, prune and save calls with any clock
\* readings (also a clock that stands still or goes backwards),
\* total_seconds and on_seconds never decrease and start_time never
\* changes; a call that appends no sample (prune, save) leaves all three
\* unchanged.
C33_CountersMonotone ==
    [][/\ all_time'.total_seconds >= all_time.total_seconds
       /\ all_time'.on_seconds >= all_time.on_seconds
       /\ all_time'.start_time = all_time.start_time
       /\ Len(history') <= Len(history) => all_time' = all_time]_vars

\* an interval has been counted, a save has pruned, and the last update
\* read a clock that went backwards
C33_Witness ==
    /\ all_time.total_seconds = 1
    /\ rt_removed = 1
    /\ Len(history) = 2
    /\ history[2][1] < history[1][1]

-----------------------------------------------------------------------------
(* The ledger driven directly: any sequence of get_status calls *)

\* the days on which get_status is called
Days == {7, 8}

LiveWh == {1000, 1234}

ApiWh == {1100}

DailyAnswers(today) ==
    {[kind |-> "fail"]}
    \cup {[kind |-> "data", data |-> [i \in 1..(HISTORY_DAYS_BACK + 1) |-> w]] : w \in ApiWh}
    \cup {[kind |-> "entries", entries |-> <<[date |-> today, wh |-> w]>>] : w \in ApiWh}
    \cup {[kind |-> "entries", entries |-> <<[date |-> today, wh |-> w],
                                             [date |-> today - 1, wh |-> w]>>] : w \in ApiWh}

MonthlyAnswers ==
    {[kind |-> "fail"],
     [kind |-> "data", data |-> <<5000, 0>>],
     [kind |-> "data", data |-> <<5000, 6000>>]}

\* the disk outcomes of the ledger's writes
LedgerDisk == {"ok", "write_failed"}

TapoCalls ==
    {[conn |-> "fail"]}
    \cup UNION {[conn : {"ok"}, today : {t}, today_wh : LiveWh, is_on : {TRUE},
                 power : {150}, daily : DailyAnswers(t), monthly : MonthlyAnswers,
                 disk : LedgerDisk] : t \in Days}

CallGetStatus ==
    \E c \in TapoCalls :
        /\ tapo_get_status(c)
        /\ tapo_call' = IF c.conn = "ok"
                        THEN [conn |-> "ok", today |-> c.today, today_wh |-> c.today_wh]
                        ELSE [conn |-> "fail"]
        /\ UNCHANGED <<trackerVars, workerVars, schedVars>>

\* TapoDevice.record_daily called on its own: the store, then _persist
CallRecordDaily ==
    \E d \in Days, wh \in LiveWh, disk \in LedgerDisk :
        /\ all_history' = record_daily(all_history, d, wh, KWH_PRICE)
        /\ energy_file' = persist(energy_file, all_history', disk)
        /\ tapo_call' = [conn |-> "record", today |-> d, today_wh |-> wh,
                         before |-> IF d \in DOMAIN all_history
                                    THEN {all_history[d].kwh} ELSE {}]
        /\ UNCHANGED <<cached_history, trackerVars, workerVars, schedVars>>

LedgerNext == CallGetStatus \/ CallRecordDaily

SpecLedger == SpecTrackerInit /\ [][LedgerNext]_vars

-----------------------------------------------------------------------------
(* Claims about the energy ledger *)

\* C8: record_daily(d, k2, price) on a ledger that holds another value k1 for
\* d leaves k2 (and its cost) stored for d and every other date unchanged.
C8_LiveOverwrite ==
    [][tapo_call'.conn = "record" =>
         LET d == tapo_call'.today
             k == tapo_call'.today_wh
         IN  /\ DOMAIN all_history' = DOMAIN all_history \cup {d}
             /\ all_history'[d].kwh = k
             /\ all_history'[d].cost = (k * KWH_PRICE + 500) \div 1000
             /\ \A e \in DOMAIN all_history \ {d} : all_history'[e] = all_history[e]]_vars

\* the second record_daily for a date has replaced a different value, with
\* other dates present
C8_Witness ==
    /\ tapo_call.conn = "record"
    /\ tapo_call.before # {}
    /\ tapo_call.before # {tapo_call.today_wh}
    /\ all_history[tapo_call.today].kwh = tapo_call.today_wh
    /\ DOMAIN all_history # {tapo_call.today}

\* C9 (as claimed): at the end of every get_status call in which the meter
\* is available, today's entry equals the live reading recorded by
\* record_daily in that call, whatever the history API reports for today.
C9_TodayIsLive ==
    tapo_call.conn = "ok" =>
        /\ tapo_call.today \in DOMAIN all_history
        /\ all_history[tapo_call.today] = Entry(tapo_call.today_wh, KWH_PRICE)

\* C34: no ledger operation (record_daily, save_history, the daily and the
\* monthly backfill pass, persisting) removes a date key: the set of dates
\* of the ledger never shrinks.
C34_NeverPruned ==
    [][DOMAIN all_history \subseteq DOMAIN all_history']_vars

\* a call on day 8 has run its backfill passes, whose 7-day window starts at
\* day 2, and the entry of day 1 written on day 7 is still there
C34_Witness ==
    /\ tapo_call.conn = "ok"
    /\ tapo_call.today = 8
    /\ 1 \in DOMAIN all_history
    /\ 2 \in DOMAIN all_history

\* the get_status call c has just run
GetStatusRan(c) ==
    /\ c.conn = "ok"
    /\ tapo_get_status(c)
    /\ tapo_call' = [conn |-> "ok", today |-> c.today, today_wh |-> c.today_wh]

\* C35 (as claimed): in a get_status call in which the daily or the monthly
\* backfill fails, the snapshot is returned with available = true, today's
\* live entry recorded in that call is kept, and the entries that were
\* already in the ledger are unchanged.
C35_FailureNotSurfaced ==
    [][\A c \in TapoCalls :
         (/\ GetStatusRan(c)
          /\ c.daily.kind = "fail" \/ c.monthly.kind = "fail") =>
            /\ tapo_snapshot(c).available
            /\ all_history'[c.today] = Entry(c.today_wh, KWH_PRICE)
            /\ \A d \in DOMAIN all_history \ {c.today} :
                 all_history'[d] = all_history[d]]_vars

\* the months of the year of today that the device reports in data
ReportedMonths(today, data) ==
    {MonthOf(YearStart(today)) + (i - 1) : i \in 1..Len(data)}

\* the energy the device reports for month m of the year of today
ReportedWh(today, data, m) == data[m - MonthOf(YearStart(today)) + 1]

\* C40: in every get_status call on any ledger the program can hold, the
\* monthly backfill pass, started on the ledger the daily pass has left,
\* inserts only month summaries: an entry under the first day of a month
\* whose reported energy is positive and of which the ledger held no date;
\* every entry of a month of which the ledger held a date (a daily record or
\* an earlier summary) is unchanged.
C40_MonthSummaries ==
    \A c \in TapoCalls :
        c.conn = "ok" =>
            LET before == LedgerAfterDaily(c)
                after  == LedgerAfterMonthly(c)
                held(m) == \E d \in DOMAIN before : MonthOf(d) = m
            IN  /\ \A d \in DOMAIN before :
                     d \in DOMAIN after /\ after[d] = before[d]
                /\ \A d \in DOMAIN after \ DOMAIN before :
                     /\ c.monthly.kind = "data"
                     /\ MonthOf(d) \in ReportedMonths(c.today, c.monthly.data)
                     /\ d = MonthOf(d) * DaysPerMonth
                     /\ ReportedWh(c.today, c.monthly.data, MonthOf(d)) > 0
                     /\ after[d] =
                          Entry(ReportedWh(c.today, c.monthly.data, MonthOf(d)),
                                KWH_PRICE)
                     /\ ~held(MonthOf(d))

\* on day 8 the device reported 5000 Wh for month 2 and 6000 Wh for month 3:
\* month 3 has its summary under day 12, month 2 holds today's entry and no
\* summary
C40_Witness ==
    /\ tapo_call.conn = "ok"
    /\ tapo_call.today = 8
    /\ 12 \in DOMAIN all_history
    /\ all_history[12] = Entry(6000, KWH_PRICE)
    /\ 8 \in DOMAIN all_history
    /\ all_history[8].kwh # 5000

-----------------------------------------------------------------------------
(* Claims about the control loops and the notifications *)

\* x is one of the commands of the sequence
Issued(x, seq) == \E i \in 1..Len(seq) : seq[i] = x

\* an iteration of the worker has just run
Ticked == pc = "tick" /\ pc' = "wait"

HumidityKnown(dreo) ==
    /\ Available(dreo)
    /\ "current_humidity" \in DOMAIN dreo
    /\ "target_humidity" \in DOMAIN dreo

\* the transition the fan override takes on the readings of dreo
OverrideStep(dreo) ==
    LET cur    == dreo.current_humidity
        target == dreo.target_humidity
        on     == fan_humidity_on(config.env)
        off    == fan_humidity_off(config.env)
    IN  /\ ~humidity_override_active =>
             (humidity_override_active' <=> cur >= target + on)
        /\ humidity_override_active =>
             (~humidity_override_active' <=> cur < target + off)

\* C1 (as claimed): the override starts NORMAL, and in every iteration in
\* which the humidifier's current and target humidity are both available,
\* NORMAL moves to OVERRIDE iff current >= target + on_threshold, OVERRIDE
\* moves to NORMAL iff current < target + off_threshold, and the state is
\* unchanged otherwise.
C1_AsClaimed ==
    [][/\ ticks = 0 => ~humidity_override_active
       /\ (Ticked /\ HumidityKnown(status'.dreo)) => OverrideStep(status'.dreo)]_vars

\* C1 (amended): the same, in every iteration in which the fan's snapshot is
\* available as well; when the fan is unavailable the state is unchanged.
C1_OverrideWhenFanAvailable ==
    [][/\ ticks = 0 => ~humidity_override_active
       /\ (Ticked /\ HumidityKnown(status'.dreo) /\ Available(status'.fan)) =>
             OverrideStep(status'.dreo)
       /\ (Ticked /\ ~Available(status'.fan)) =>
             humidity_override_active' = humidity_override_active]_vars

\* with target 50, on 10 and off 5: the override, entered in an earlier
\* iteration, is still active after an iteration that read 55, and the fan
\* is driven to 100
C1_Witness ==
    /\ pc = "wait"
    /\ config.env = <<>>
    /\ Available(status.fan)
    /\ status.fan.humidity_override = TRUE
    /\ HumidityKnown(status.dreo)
    /\ status.dreo.current_humidity = 55
    /\ status.dreo.target_humidity = 50
    /\ Issued(Cmd("fan", "set_speed", 100), cmds)

\* C2: in an evaluation of the heater loop at night with a valid reading
\* (temperatures in tenths of a degree, reading = r.sum / r.n), turn_on is
\* issued iff reading < target - 0.5 and the heater is not already on,
\* turn_off iff reading > target + 0.5 and the heater is on, and no heater
\* command is issued for a reading in [target - 0.5, target + 0.5].
C2_Thermostat ==
    [][(/\ Ticked
        /\ last_heater_check_time' # last_heater_check_time
        /\ ~IsDay(status'.wiz)) =>
          LET settings  == load_heater_settings(config.heater)
              target    == settings.night_temp
              r         == HeaterReading(status'.temp, settings)
              heater_on == /\ Available(status'.heater)
                           /\ status'.heater.is_on
          IN  r.n > 0 =>
                /\ Issued(Cmd("heater", "turn_on", 0), cmds') <=>
                     (r.sum < (target - 5) * r.n /\ ~heater_on)
                /\ Issued(Cmd("heater", "turn_off", 0), cmds') <=>
                     (r.sum > (target + 5) * r.n /\ heater_on)
                /\ (r.sum >= (target - 5) * r.n /\ r.sum <= (target + 5) * r.n) =>
                     cmds' = <<>>]_vars

\* with target 20.0: the second evaluation in a row, at night, reads 20.6
\* with the heater on and turns it off
C2_Witness ==
    /\ pc = "wait"
    /\ ticks = 2
    /\ last_heater_check_time = clock
    /\ clock = Day0 + HEATER_CHECK_INTERVAL
    /\ load_heater_settings(config.heater).night_temp = 200
    /\ ~IsDay(status.wiz)
    /\ status.temp = Temp(<<Sensor("A", 206)>>)
    /\ status.heater = [available |-> TRUE, is_on |-> TRUE]
    /\ cmds = <<Cmd("heater", "turn_off", 0)>>

\* the desired state of the light at minute now of the day
DesiredOn(on, off, now) ==
    \/ on < off /\ on <= now /\ now < off
    \/ on >= off /\ (now >= on \/ now < off)

\* C3: with the schedule enabled and the light's snapshot available, the
\* iteration issues turn_on iff the light is desired on and is off, turn_off
\* iff it is desired off and is on, and no command when the state agrees;
\* desired on is (on < off and on <= now < off) or (on >= off and (now >= on
\* or now < off)), so with on_time = off_time it is on at every minute.
C3_LightSchedule ==
    (/\ pc = "wait"
     /\ load_light_schedule(config.light).enabled
     /\ Available(status.wiz)) =>
        LET schedule == load_light_schedule(config.light)
            on       == Minutes(schedule.on_time)
            off      == Minutes(schedule.off_time)
            now      == (clock \div 60) % 1440
            desired  == DesiredOn(on, off, now)
            is_on    == status.wiz.is_on
        IN  /\ Issued(Cmd("wiz", "turn_on", 0), cmds) <=> (desired /\ ~is_on)
            /\ Issued(Cmd("wiz", "turn_off", 0), cmds) <=> (~desired /\ is_on)
            /\ (desired <=> is_on) => cmds = <<>>
            /\ on = off => (is_on => cmds = <<>>) /\ (~is_on => cmds # <<>>)

\* with on 22:00 and off 06:00 the light, found off at 23:30, is turned on
C3_Witness ==
    /\ pc = "wait"
    /\ "on_time" \in DOMAIN config.light
    /\ "off_time" \in DOMAIN config.light
    /\ config.light.on_time = Time(22, 0)
    /\ config.light.off_time = Time(6, 0)
    /\ clock = Day0 + 23 * 3600 + 30 * 60
    /\ status.wiz = [available |-> TRUE, is_on |-> FALSE]
    /\ cmds = <<Cmd("wiz", "turn_on", 0)>>

\* the number of false-to-true steps of (power > 200) along the readings,
\* starting from 'not above'
Crossings(readings) ==
    Cardinality({i \in 1..Len(readings) :
                   /\ readings[i] > 200
                   /\ (i = 1 \/ ~(readings[i - 1] > 200))})

\* C4: the number of power notifications sent so far equals the number of
\* false-to-true steps of (power > 200 W) along the observed meter
\* snapshots, and an iteration whose previous observed snapshot was above
\* the threshold sends none.
C4_OncePerCrossing ==
    /\ power_alerts = Crossings(observed_power)
    /\ (pc = "wait" /\ Issued("power-alert", notes)) =>
         /\ Available(status.tapo)
         /\ observed_power # <<>>
         /\ Len(observed_power) > 1 =>
              ~(observed_power[Len(observed_power) - 1] > 200)

\* the readings 150, 150, 250, 260, 240, 210 have produced one notification
C4_Witness ==
    /\ pc = "wait"
    /\ observed_power = <<150, 150, 250, 260, 240, 210>>
    /\ power_alerts = 1
    /\ notes = <<>>

\* C10 (as claimed): no iteration issues a command to a device whose
\* snapshot in that iteration is unavailable.
C10_NoCommandToUnavailable ==
    pc = "wait" =>
        \A i \in 1..Len(cmds) : Available(status[cmds[i].dev])

\* C21: in an iteration in which the humidifier's snapshot is unavailable, or
\* its current humidity or its target humidity is missing, the override
\* state after the iteration equals the override state before it.
C21_OverrideHolds ==
    [][(Ticked /\ ~HumidityKnown(status'.dreo)) =>
         humidity_override_active' = humidity_override_active]_vars

\* the override, entered earlier, is still active after an iteration whose
\* humidifier snapshot has no current humidity, and the fan is driven to 100
C21_Witness ==
    /\ pc = "wait"
    /\ humidity_override_active
    /\ Available(status.dreo)
    /\ "current_humidity" \notin DOMAIN status.dreo
    /\ status.dreo.target_humidity = 50
    /\ Available(status.fan)
    /\ status.fan.humidity_override = TRUE
    /\ cmds = <<Cmd("fan", "set_speed", 100)>>

\* the commands of seq that go to device dev
CmdsTo(dev, seq) == SelectSeq(seq, LAMBDA c : c.dev = dev)

\* C22: after an iteration with the fan available, the target speed is 100
\* when the override is active after the iteration's transition, otherwise
\* day_speed when the light is available and on, otherwise night_speed;
\* set_speed(target) is the iteration's only fan command when the fan's
\* reported speed is known and differs from the target, and there is no fan
\* command otherwise.
C22_SpeedEnforced ==
    (pc = "wait" /\ Available(status.fan)) =>
        LET day    == IF "day" \in DOMAIN config.fan THEN config.fan.day ELSE 75
            night  == IF "night" \in DOMAIN config.fan THEN config.fan.night ELSE 30
            target == IF humidity_override_active THEN 100
                      ELSE IF Available(status.wiz) /\ status.wiz.is_on THEN day
                      ELSE night
            known  == "speed" \in DOMAIN status.fan
        IN  /\ (known /\ status.fan.speed # target) =>
                 CmdsTo("fan", cmds) = <<Cmd("fan", "set_speed", target)>>
            /\ (~known \/ status.fan.speed = target) => CmdsTo("fan", cmds) = <<>>

\* without override and with the light on, a fan that reports 30 is set to
\* the default day speed
C22_Witness ==
    /\ pc = "wait"
    /\ ~humidity_override_active
    /\ config.fan = <<>>
    /\ IsDay(status.wiz)
    /\ Available(status.fan)
    /\ "speed" \in DOMAIN status.fan
    /\ status.fan.speed = 30
    /\ cmds = <<Cmd("fan", "set_speed", 75)>>

\* C23: after every iteration the published status carries the field
\* humidity_override for the fan, equal to the override state at the end of
\* the iteration, also when the fan's snapshot is unavailable.
C23_FlagPublished ==
    pc = "wait" =>
        /\ "humidity_override" \in DOMAIN status.fan
        /\ status.fan.humidity_override = humidity_override_active

\* C24: with off_threshold < on_threshold, the override state an iteration
\* leaves after a transition on a reading is stable for that reading (an
\* active override is not below the release level, an inactive one not at
\* the trigger level), and an iteration that reads the same current and
\* target humidity as the iteration before it, which had the fan available,
\* does not change the state.
C24_NoChatter ==
    [][(/\ Ticked
        /\ fan_humidity_off(config.env) < fan_humidity_on(config.env)
        /\ HumidityKnown(status'.dreo)) =>
          LET cur    == status'.dreo.current_humidity
              target == status'.dreo.target_humidity
              on     == fan_humidity_on(config.env)
              off    == fan_humidity_off(config.env)
          IN  /\ Available(status'.fan) =>
                   /\ humidity_override_active' => cur >= target + off
                   /\ ~humidity_override_active' => cur < target + on
              /\ (/\ ticks >= 1
                  /\ Available(status.fan)
                  /\ HumidityKnown(status.dreo)
                  /\ status.dreo.current_humidity = cur
                  /\ status.dreo.target_humidity = target) =>
                   humidity_override_active' = humidity_override_active]_vars

\* the first iteration has entered the override on a reading exactly at the
\* trigger level (target 50, on 10, off 5)
C24_Witness ==
    /\ pc = "wait"
    /\ ticks = 1
    /\ config.env = <<>>
    /\ humidity_override_active
    /\ Available(status.fan)
    /\ HumidityKnown(status.dreo)
    /\ status.dreo.current_humidity = 60
    /\ status.dreo.target_humidity = 50

\* the heater loop is enabled by the stored configuration
HeaterEnabled == "enabled" \in DOMAIN config.heater /\ config.heater.enabled

\* the iteration that has just run evaluated the heater loop
HeaterEvaluated == Ticked /\ last_heater_check_time' # last_heater_check_time

\* C25: while the heater loop is enabled, an evaluation is at least 300
\* seconds of clock time after the evaluation before it, whatever the time
\* between iterations; an iteration less than 300 seconds after the last
\* evaluation issues no heater command and leaves the timestamp alone, so
\* heater commands are issued by evaluations only.
C25_HeaterThrottle ==
    [][(Ticked /\ HeaterEnabled) =>
         LET since == clock - last_heater_check_time
         IN  /\ last_heater_check_time' # last_heater_check_time =>
                  (last_heater_check_time' = clock /\ since >= 300)
             /\ since < 300 =>
                  /\ last_heater_check_time' = last_heater_check_time
                  /\ CmdsTo("heater", cmds') = <<>>
             /\ CmdsTo("heater", cmds') # <<>> =>
                  (last_heater_check_time' = clock /\ since >= 300)]_vars

\* the second iteration, 5 seconds after an evaluation, at night with a
\* reading of 19.4 against the target 20.0 and the heater off, issues
\* nothing
C25_Witness ==
    /\ pc = "wait"
    /\ ticks = 2
    /\ HeaterEnabled
    /\ clock = Day0 + UPDATE_INTERVAL
    /\ last_heater_check_time = Day0
    /\ ~IsDay(status.wiz)
    /\ status.temp = Temp(<<Sensor("A", 194)>>)
    /\ status.heater = [available |-> TRUE, is_on |-> FALSE]
    /\ cmds = <<>>

\* the heater loop finds no reading in the snapshots st: at night the
\* temperature snapshot is unavailable, the configured sensor is missing or
\* invalid, or no sensor is valid
NoReading(st) ==
    /\ ~IsDay(st.wiz)
    /\ HeaterReading(st.temp, load_heater_settings(config.heater)).n = 0

\* C38: while the heater loop is enabled, an iteration 300 s or more after
\* the last evaluation sets the timestamp of the last evaluation to its
\* clock reading, also when it finds no reading and issues no command; an
\* iteration less than 300 s after an evaluation that found no reading
\* issues no heater command and leaves the timestamp alone, whatever
\* reading it fetches.
C38_SkippedEvaluationThrottles ==
    [][(Ticked /\ HeaterEnabled) =>
         LET since == clock - last_heater_check_time
         IN  /\ since >= 300 => last_heater_check_time' = clock
             /\ (since >= 300 /\ NoReading(status')) =>
                  CmdsTo("heater", cmds') = <<>>
             /\ (ticks >= 1 /\ NoReading(status) /\ since < 300) =>
                  /\ CmdsTo("heater", cmds') = <<>>
                  /\ last_heater_check_time' = last_heater_check_time]_vars

\* the first iteration has evaluated the heater loop at night with the
\* configured sensor invalid: nothing is commanded and the timestamp is the
\* iteration's clock reading
C38_Witness ==
    /\ pc = "wait"
    /\ ticks = 1
    /\ HeaterEnabled
    /\ config.heater = [enabled |-> TRUE, night_temp |-> 200, sensor_address |-> "A"]
    /\ ~IsDay(status.wiz)
    /\ status.temp = Temp(<<BadSensor("A"), Sensor("B", 194)>>)
    /\ status.heater = [available |-> TRUE, is_on |-> FALSE]
    /\ last_heater_check_time = clock
    /\ cmds = <<>>

\* C26: in an evaluation of the heater loop in which the light is available
\* and on, turn_on is issued iff the heater is available and reports off,
\* whatever the temperature snapshot holds, and turn_off is never issued.
C26_HeaterDayMode ==
    [][(HeaterEvaluated /\ IsDay(status'.wiz)) =>
         /\ Issued(Cmd("heater", "turn_on", 0), cmds') <=>
              (Available(status'.heater) /\ ~status'.heater.is_on)
         /\ ~Issued(Cmd("heater", "turn_off", 0), cmds')
         /\ Len(CmdsTo("heater", cmds')) <= 1]_vars

\* by day, with a reading of 20.6 against the target 20.0, a heater that
\* reports off is turned on
C26_Witness ==
    /\ pc = "wait"
    /\ HeaterEnabled
    /\ last_heater_check_time = clock
    /\ IsDay(status.wiz)
    /\ status.temp = Temp(<<Sensor("A", 206)>>)
    /\ status.heater = [available |-> TRUE, is_on |-> FALSE]
    /\ cmds = <<Cmd("heater", "turn_on", 0)>>

LightEnabled == "enabled" \in DOMAIN config.light /\ config.light.enabled

\* C28: with enabled = false in the heater configuration no iteration issues
\* a heater command or advances the last-check timestamp; with enabled =
\* false in the light schedule no iteration issues a light command; and both
\* flags are false when no configuration is stored.
C28_DisabledInert ==
    /\ ~load_heater_settings(<<>>).enabled
    /\ ~load_light_schedule(<<>>).enabled
    /\ ~HeaterEnabled =>
         /\ CmdsTo("heater", cmds) = <<>>
         /\ last_heater_check_time = 0
    /\ ~LightEnabled => CmdsTo("wiz", cmds) = <<>>

\* with enabled = false stored, the second iteration, at night with a
\* reading of 19.4 against the target 20.0 and the heater off, issues nothing
\* and the timestamp is still 0
C28_Witness ==
    /\ pc = "wait"
    /\ ticks = 2
    /\ config.heater = [enabled |-> FALSE, night_temp |-> 200]
    /\ clock = Day0 + HEATER_CHECK_INTERVAL
    /\ ~IsDay(status.wiz)
    /\ Available(status.wiz)
    /\ status.temp = Temp(<<Sensor("A", 194)>>)
    /\ status.heater = [available |-> TRUE, is_on |-> FALSE]
    /\ last_heater_check_time = 0
    /\ cmds = <<>>

\* C29: an iteration sends the light notification iff the light is available,
\* a previously observed value is stored and the light's value differs from
\* it; the stored value after an iteration with the light available is that
\* iteration's value, so the first iteration never notifies and an
\* iteration that reads the same value as the iteration before it never
\* notifies.
C29_LightEdge ==
    [][Ticked =>
         LET sent == Issued("wiz-state", notes')
         IN  /\ sent <=> (/\ Available(status'.wiz)
                          /\ last_wiz_state # None
                          /\ last_wiz_state # {status'.wiz.is_on})
             /\ Available(status'.wiz) => last_wiz_state' = {status'.wiz.is_on}
             /\ ticks = 0 => (last_wiz_state = None /\ ~sent)
             /\ (/\ ticks >= 1
                 /\ Available(status.wiz)
                 /\ Available(status'.wiz)
                 /\ status.wiz.is_on = status'.wiz.is_on) => ~sent
             /\ (/\ ticks >= 1
                 /\ Available(status.wiz)
                 /\ Available(status'.wiz)
                 /\ status.wiz.is_on # status'.wiz.is_on) => sent]_vars

\* the light, observed on before, is observed off and the notification is
\* sent
C29_Witness ==
    /\ pc = "wait"
    /\ ticks = 2
    /\ status.wiz = [available |-> TRUE, is_on |-> FALSE]
    /\ last_wiz_state = {FALSE}
    /\ notes = <<"wiz-state">>

\* C30: after every iteration the stored last-observed light value equals
\* the is_on value carried by the iteration's light snapshot, whether the
\* snapshot is available or not.
C30_LastAlwaysUpdated ==
    pc = "wait" => last_wiz_state = Get(status.wiz, "is_on")

\* the water rule's condition on the snapshot dreo
TankEmpty(dreo) ==
    /\ Available(dreo)
    /\ "water_tank_empty" \in DOMAIN dreo
    /\ dreo.water_tank_empty

\* the humidity rule's condition on the snapshot dreo
HumidityLow(dreo) ==
    /\ HumidityKnown(dreo)
    /\ dreo.current_humidity < dreo.target_humidity - 5

\* C31: in every iteration the water alert is sent iff the humidifier is
\* available, reports its tank empty, and more than 4 hours have passed since
\* the water rule's timestamp; the humidity alert is sent iff the humidifier
\* is available, both readings are present, current < target - 5, and more
\* than 15 minutes have passed since the humidity rule's timestamp.  Each
\* timestamp becomes the iteration's clock reading when its own alert is sent
\* and is unchanged otherwise, so that two alerts of one type are never
\* 4 hours (15 minutes) or less apart.
C31_Cooldowns ==
    [][Ticked =>
         LET dreo  == status'.dreo
             water == /\ TankEmpty(dreo)
                      /\ clock - last_water_notification_time > 4 * 60 * 60
             low   == /\ HumidityLow(dreo)
                      /\ clock - last_humidity_low_notification_time > 15 * 60
         IN  /\ Issued("water-alert", notes') <=> water
             /\ Issued("humidity-low", notes') <=> low
             /\ last_water_notification_time' =
                  IF water THEN clock ELSE last_water_notification_time
             /\ last_humidity_low_notification_time' =
                  IF low THEN clock ELSE last_humidity_low_notification_time]_vars

\* the second iteration started 4 hours and 1 second after the first, which
\* had sent both alerts, and has sent both again
C31_Witness ==
    /\ pc = "wait"
    /\ ticks = 2
    /\ clock = Day0 + 4 * 60 * 60 + 1
    /\ notes = <<"water-alert", "humidity-low">>
    /\ last_water_notification_time = clock
    /\ last_humidity_low_notification_time = clock

\* C37: every iteration appends exactly one sample, stamped with the
\* iteration's clock reading; the sample is inactive when the humidifier
\* snapshot is unavailable, and the interval of at most 300 s that follows an
\* iteration with the humidifier unavailable is added to total_seconds and
\* not to on_seconds.
C37_UnavailableIsInactive ==
    [][Ticked =>
         LET dreo  == status'.dreo
             n     == Len(history')
             delta == clock - history[Len(history)][1]
         IN  /\ \E k \in 0..Len(history) :
                  SubSeq(history', 1, n - 1) = SubSeq(history, k + 1, Len(history))
             /\ n >= 1
             /\ history'[n][1] = clock
             /\ history'[n][2] = (Available(dreo) /\ dreo.is_working)
             /\ (/\ ticks >= 1
                 /\ ~Available(status.dreo)
                 /\ delta > 0
                 /\ delta <= 300) =>
                    /\ all_time'.total_seconds = all_time.total_seconds + delta
                    /\ all_time'.on_seconds = all_time.on_seconds]_vars

\* 61 s after an iteration with the humidifier unavailable, an iteration
\* with the humidifier misting has counted the interval as inactive time
C37_Witness ==
    /\ pc = "wait"
    /\ ticks = 2
    /\ Len(history) = 2
    /\ ~history[1][2]
    /\ history[2][2]
    /\ history[2][1] - history[1][1] = 61
    /\ all_time.total_seconds = 61
    /\ all_time.on_seconds = 0

-----------------------------------------------------------------------------
(* Claims about the scheduler *)

\* C11: a step that raises sends the worker to the wait, not to its end; and
\* while no stop signal is set every iteration is followed by another one
\* (up to the bound on iterations of the model).
C11_TicksKeepStarting ==
    /\ [][RaiseStep => (pc' = "wait" /\ ticks' = ticks)]_vars
    /\ \A k \in 0..(MaxSchedTicks - 1) :
         (ticks = k /\ ~stop_event) ~> (ticks = k + 1 \/ stop_event)

\* the first iteration raised in get_all_device_status, and the worker is in
\* its second iteration
C11_Witness ==
    /\ ticks = 2
    /\ pc = "fetch"
    /\ inputs_log = <<>>
    /\ ~stop_event

\* what one iteration computes from the loop's state ls and the iteration's
\* inputs (the fetched status and the clock reading), in the order of the
\* loop body: notifications, fan, heater, light
IterationResult(ls, input, cfg) ==
    LET st     == input.status
        now    == input.clock
        nwiz   == NotifyWiz(st.wiz, ls.last_wiz_state)
        npower == NotifyPower(st.tapo, ls.last_power_above_threshold)
        nwater == NotifyWater(st.dreo, ls.last_water_notification_time, now)
        nhum   == NotifyHumidityLow(st.dreo,
                                    ls.last_humidity_low_notification_time, now)
        fan    == check_fan_control(st, ls.humidity_override_active, cfg)
        heat   == check_heater_control(fan.status, ls.last_heater_check_time,
                                       cfg, now)
        light  == check_light_schedule(fan.status, cfg, now)
    IN  [ls     |-> [humidity_override_active |-> fan.override,
                     last_heater_check_time |-> heat.last_check,
                     last_wiz_state |-> nwiz.last,
                     last_power_above_threshold |-> npower.last,
                     last_water_notification_time |-> nwater.last,
                     last_humidity_low_notification_time |-> nhum.last],
         cmds   |-> fan.cmds \o heat.cmds \o light,
         notes  |-> nwiz.notes \o npower.notes \o nwater.notes \o nhum.notes,
         status |-> fan.status]

\* the loop's state when the worker starts (app.py 42-53)
InitialLoopState ==
    [humidity_override_active |-> FALSE,
     last_heater_check_time |-> 0,
     last_wiz_state |-> None,
     last_power_above_threshold |-> FALSE,
     last_water_notification_time |-> 0,
     last_humidity_low_notification_time |-> 0]

\* the results of the iterations that read the inputs ins, one after another
RECURSIVE Replay(_, _, _)
Replay(ls, ins, cfg) ==
    IF ins = <<>> THEN <<>>
    ELSE LET r == IterationResult(ls, Head(ins), cfg)
         IN  <<r>> \o Replay(r.ls, Tail(ins), cfg)

\* the result of the current iteration, computed from the logged inputs alone
Expected == LET rs == Replay(InitialLoopState, inputs_log, config)
            IN  rs[Len(rs)]

\* C12: a send that raises never aborts the iteration (the step after the
\* notifications is the fan loop, whatever the send did), and an iteration
\* publishes the status and has issued the commands that its fetched
\* snapshot determines, the same whether the send raised or succeeded.
C12_SendFailureHarmless ==
    [][/\ NotifyStep => pc' = "fan"
       /\ Emit => /\ cmds = Expected.cmds
                  /\ notes = Expected.notes
                  /\ published' = Expected.status]_vars

\* an iteration whose send raised has issued a command and has published
C12_Witness ==
    /\ send_raised
    /\ pc = "wait"
    /\ emits = 1
    /\ cmds # <<>>
    /\ published = status

\* C13: a device whose fetch fails is reported unavailable, the snapshots of
\* the other devices are still returned, and the loops and notifications
\* that depend on the other devices still run and actuate.
C13_FailureIsolated ==
    (pc \in {"save", "emit"} \/ (pc = "wait" /\ emits = 1)) =>
        /\ DOMAIN status = Devices \cup {"tapo"}
        /\ \A d \in DOMAIN status : d \in failed <=> ~Available(status[d])
        /\ \A l \in {"notify", "fan", "heater", "light"} :
             \E i \in 1..Len(step_log) : step_log[i] = l
        /\ cmds = Expected.cmds
        /\ (("fan" \notin failed /\ "dreo" \notin failed) =>
              \E i \in 1..Len(cmds) : cmds[i].dev = "fan")
        /\ ("wiz" \notin failed => \E i \in 1..Len(cmds) : cmds[i].dev = "wiz")

\* the light's fetch failed, the fan's did not, and the fan was commanded
C13_Witness ==
    /\ pc = "wait"
    /\ emits = 1
    /\ "wiz" \in failed
    /\ "fan" \notin failed
    /\ \E i \in 1..Len(cmds) : cmds[i].dev = "fan"
    /\ ~Available(published.wiz)
    /\ Available(published.fan)

\* C14: the tracker, the ledger, the control state and the notification
\* state are written by the worker only: a status request served by another
\* thread changes none of them, and in particular neither writes nor
\* persists the energy ledger.
C14_RequestsWriteNothing ==
    [][(RequestBegin \/ RequestEnd) =>
         UNCHANGED <<trackerVars, all_history, cached_history, energy_file,
                     loopVars>>]_vars

\* C15: once the stop signal is set the worker starts no new iteration, and
\* the process does not end before the worker has done its one final save.
C15_FinalSaveBeforeExit ==
    /\ (stop_event /\ pc \in {"final_save", "done"}) => ticks <= MaxSchedTicks
    /\ main = "exited" => (pc = "done" /\ final_saves = 1)

\* C16: every iteration publishes exactly one merged status: when the worker
\* reaches the wait, the iteration has published once, and the published
\* status holds the device snapshots, the tracker's metrics and the
\* fan-override flag.
C16_OnePublishPerTick ==
    (pc = "wait" /\ ticks > 0) =>
        /\ emits = 1
        /\ DOMAIN published = Devices \cup {"tapo"}
        /\ "runtime_stats" \in DOMAIN published.dreo
        /\ "humidity_override" \in DOMAIN published.fan

\* C19: the steps of an iteration run in the order fetch, tracker update,
\* ledger update, fan, heater and light loops, notification evaluation,
\* persistence check, publish.
C19_StepOrder ==
    (pc = "wait" /\ emits = 1) =>
        step_log = <<"fetch", "track", "ledger", "fan", "heater", "light",
                     "notify", "save", "publish">>

\* the time covered by the samples of h when no two of them are more than
\* GAP_SECONDS apart
Span(h) == IF Len(h) < 2 THEN 0 ELSE h[Len(h)][1] - h[1][1]

\* C20: a status request never sees a history that holds the current sample
\* while the counters do not include it, and never reads the sample sequence
\* while the worker changes it.
C20_NoPartialTick ==
    rpc = "done" =>
        /\ ~view.mutated
        /\ view.all_time.total_seconds >= Span(view.hist)

Fetched == inputs_log[Len(inputs_log)].status

\* the fan snapshot without the flag check_fan_control adds for the frontend
WithoutFlag(fan) == [k \in DOMAIN fan \ {"humidity_override"} |-> fan[k]]

\* C39: the notification rules and the fan, heater and light loops of an
\* iteration each decide from the snapshots fetched at the start of that
\* iteration: what each step sends or commands is what it computes from the
\* fetched snapshots, whatever the steps before it have commanded, and no
\* step changes a device's snapshot (the fan loop only adds its
\* humidity_override flag to the fan's).
C39_OneSnapshotPerTick ==
    [][/\ NotifyStep =>
            notes' = NotifyWiz(Fetched.wiz, last_wiz_state).notes
                     \o NotifyPower(Fetched.tapo, last_power_above_threshold).notes
                     \o NotifyWater(Fetched.dreo, last_water_notification_time,
                                    clock).notes
                     \o NotifyHumidityLow(Fetched.dreo,
                                          last_humidity_low_notification_time,
                                          clock).notes
       /\ FanStep =>
            cmds' = cmds \o check_fan_control(Fetched, humidity_override_active,
                                              config).cmds
       /\ HeaterStep =>
            cmds' = cmds \o check_heater_control(Fetched, last_heater_check_time,
                                                 config, clock).cmds
       /\ LightStep =>
            cmds' = cmds \o check_light_schedule(Fetched, config, clock)
       /\ (NotifyStep \/ FanStep \/ HeaterStep \/ LightStep) =>
            /\ \A d \in {"wiz", "heater", "dreo", "tapo", "temp"} :
                 status'[d] = Fetched[d]
            /\ WithoutFlag(status'.fan) = Fetched.fan]_vars

\* the fan loop has commanded a speed and the light loop, after it, has
\* switched the light off; the snapshot still shows the fetched speed and
\* the light on
C39_Witness ==
    /\ pc = "save"
    /\ cmds = <<Cmd("fan", "set_speed", 100), Cmd("wiz", "turn_off", 0)>>
    /\ status.fan.speed = 30
    /\ status.wiz.is_on

\* C32 (as claimed): the timestamps of the water and of the humidity rule
\* are reset only when the notification is actually sent: in an iteration
\* in which the sends of check_push_notifications fail, both timestamps are
\* unchanged.
C32_ResetOnlyWhenSent ==
    [][(NotifyStep /\ send_raised') =>
         /\ last_water_notification_time' = last_water_notification_time
         /\ last_humidity_low_notification_time' =
              last_humidity_low_notification_time]_vars

\* C36: the save step of an iteration attempts a save iff more than 60 s
\* have passed since the last attempt, and the attempt, whether its write
\* succeeds or fails, moves the time of the last attempt to the iteration's
\* clock reading (no retry before the next scheduled point), leaves the
\* all-time accumulator unchanged and the samples inside the 7-day window
\* as they were, and is followed by the publish of the same iteration.
C36_SaveFailureTolerated ==
    [][SaveStep =>
         LET due == clock - last_save_time > 60
         IN  /\ last_save_time' = IF due THEN clock ELSE last_save_time
             /\ ~due => UNCHANGED <<history, runtime_file>>
             /\ all_time' = all_time
             /\ history' = InWindow(history, clock)
             /\ (runtime_file' # runtime_file /\ runtime_file'.state = "ok") =>
                  /\ runtime_file'.history = history'
                  /\ runtime_file'.all_time = all_time
             /\ pc' = "emit"]_vars

\* the save of the second iteration has failed and left a truncated file;
\* the samples and the counters are in memory, the attempt is recorded, and
\* the iteration has gone on to publish
C36_Witness ==
    /\ pc = "wait"
    /\ ticks = 2
    /\ emits = 1
    /\ runtime_file.state = "corrupt"
    /\ last_save_time = clock
    /\ Len(history) = 2
    /\ all_time.total_seconds = SAVE_INTERVAL + 1

-----------------------------------------------------------------------------
(* Claims about persistence *)

=============================================================================
